---------------------------- MODULE Spec2Model ----------------------------
(***************************************************************************)
(* A model of ctapipe's SimTelEventSource (ctapipe/io/simteleventsource.py)*)
(* : the R1 calibration of raw waveforms, the construction of the source   *)
(* and of its SubarrayDescription, and the event generator.                *)
(*                                                                         *)
(* Three families of behaviours are specified over one set of variables:   *)
(*   SpecCalib  one call of apply_simtel_r1_calibration on bounded inputs, *)
(*   SpecBuild  __init__, prepare_subarray_info, close and __exit__,       *)
(*   Spec       an opened source: _generator, pulls on it, close, __exit__ *)
(*              (SpecPointing is Spec over streams that vary the tracking  *)
(*              positions instead of the telescope sets).                  *)
(***************************************************************************)
EXTENDS Integers, Sequences, FiniteSets, TLC

VARIABLES
    calib,              \* one call of apply_simtel_r1_calibration: inputs, result
    phase,              \* "new" | "open" | "failed": where __init__ got to
    err,                \* the exception __init__ raised, or None
    allowed_tels,       \* EventSource.allowed_tels
    back_seekable,      \* SimTelEventSource.back_seekable
    focal_length_choice,\* SimTelEventSource.focal_length_choice
    file_,              \* self.file_, the SimTelFile
    camera_cache,       \* self._camera_cache: camera name -> camera object
    cameras,            \* the camera objects built so far, by object identity
    subarray_info,      \* self._subarray_info
    last_build,         \* what the latest prepare_subarray_info call returned
    start_pos,          \* self.start_pos
    gen,                \* the generator returned by _generator()
    data,               \* the EventAndMonDataContainer of the running generator
    yielded,            \* what the consumer received from this generator, in order
    warned,             \* the warnings emitted by this generator
    monitoring          \* a FITSMonitoringSource and where its __init__ got to

vars == <<calib, phase, err, allowed_tels, back_seekable, focal_length_choice,
          file_, camera_cache, cameras, subarray_info, last_build, start_pos,
          gen, data, yielded, warned, monitoring>>

sourceVars == <<phase, err, allowed_tels, back_seekable, focal_length_choice,
                file_, camera_cache, cameras, subarray_info, last_build,
                start_pos, gen, data, yielded, warned, monitoring>>

None == "None"
NaN == "NaN"

Range(f) == {f[x] : x \in DOMAIN f}

(***************************************************************************)
(* Bounds of the model.                                                    *)
(***************************************************************************)
MaxPixels == 2
MaxSamples == 3
MaxTels == 2
MaxRecords == 2
MaxCloseCalls == 2
MaxFiles == 2
MaxHdus == 2

(***************************************************************************)
(* Exact arithmetic on fractions <<numerator, denominator>>, denominator   *)
(* positive: what numpy's float arithmetic computes, without its rounding. *)
(***************************************************************************)
RatInt(n) == <<n, 1>>
RatDiv(n, d) == <<n, d>>
RatSub(a, b) == <<a[1] * b[2] - b[1] * a[2], a[2] * b[2]>>
RatMul(a, b) == <<a[1] * b[1], a[2] * b[2]>>
RatEq(a, b) == a[1] * b[2] = b[1] * a[2]
RatGt(a, b) == a[1] * b[2] > b[1] * a[2]

(***************************************************************************)
(* Gain selectors (ctapipe.calib.camera.gainselection).  A selector maps   *)
(* waveforms[channel][pixel][sample] to a channel index per pixel, counted *)
(* from 0 as numpy does.                                                   *)
(***************************************************************************)
GainThreshold == 30

PeakExceeds(samples, threshold) ==
    \E s \in DOMAIN samples : RatGt(samples[s], RatInt(threshold))

ThresholdGainSelector(waveforms) ==
    [p \in DOMAIN waveforms[1] |->
        IF PeakExceeds(waveforms[1][p], GainThreshold) THEN 1 ELSE 0]

ManualGainSelector(channel, waveforms) ==
    [p \in DOMAIN waveforms[1] |-> channel]

\* "failing" is a selector whose call raises.
GainSelectors == {"threshold", "manual_0", "manual_1", "failing"}

SelectorFails(gain_selector) == gain_selector = "failing"

CallGainSelector(gain_selector, waveforms) ==
    CASE gain_selector = "threshold" -> ThresholdGainSelector(waveforms)
      [] gain_selector = "manual_0" -> ManualGainSelector(0, waveforms)
      [] gain_selector = "manual_1" -> ManualGainSelector(1, waveforms)

(***************************************************************************)
(* apply_simtel_r1_calibration.  Arrays are sequences indexed from 1, so   *)
(* numpy's channel c is index c + 1 here.                                  *)
(***************************************************************************)
AsRat(waveforms) ==
    [c \in DOMAIN waveforms |-> [p \in DOMAIN waveforms[c] |->
        [s \in DOMAIN waveforms[c][p] |-> RatInt(waveforms[c][p][s])]]]

\* ped = pedestal[..., np.newaxis] / n_samples
PedPerSample(pedestal, n_pixels, n_samples) ==
    [c \in DOMAIN pedestal |-> [p \in DOMAIN pedestal[c] |->
        RatDiv(pedestal[c][p], n_samples)]]

\* r1_waveforms = (r0_waveforms - ped) * gain, gain = dc_to_pe[..., np.newaxis]
ScaleThenSubtract(r0_waveforms, ped, dc_to_pe) ==
    [c \in DOMAIN r0_waveforms |-> [p \in DOMAIN r0_waveforms[c] |->
        [s \in DOMAIN r0_waveforms[c][p] |->
            RatSub(RatMul(RatInt(r0_waveforms[c][p][s]), RatInt(dc_to_pe[c][p])),
                   ped[c][p])]]]

CalibrateAllChannels(r0_waveforms, ped, dc_to_pe) ==
    [c \in DOMAIN r0_waveforms |-> [p \in DOMAIN r0_waveforms[c] |->
        [s \in DOMAIN r0_waveforms[c][p] |->
            RatMul(RatSub(RatInt(r0_waveforms[c][p][s]), ped[c][p]),
                   RatInt(dc_to_pe[c][p]))]]]

\* np.zeros(n_pixels, dtype=np.int8)
ZerosOnes(n_pixels) == [p \in 1..n_pixels |-> 1]

Zeros(n_pixels) == [p \in 1..n_pixels |-> 0]

\* r1_waveforms[selected_gain_channel, np.arange(n_pixels)]
GatherFirstPixelChannel(r1_waveforms, selected_gain_channel, n_pixels) ==
    [p \in 1..n_pixels |-> r1_waveforms[selected_gain_channel[1] + 1][p]]

GatherChannel(r1_waveforms, selected_gain_channel, n_pixels) ==
    [p \in 1..n_pixels |-> r1_waveforms[selected_gain_channel[p] + 1][p]]

\* selected_gain_channel = gain_selector(r0_waveforms)
SelectGainChannel(gain_selector, r0_waveforms, r1_waveforms) ==
    CallGainSelector(gain_selector, AsRat(r0_waveforms))

\* The result of the call, or the exception of the selector in raised.
apply_simtel_r1_calibration_selecting(r0_waveforms, pedestal, dc_to_pe, gain_selector) ==
    LET n_channels == Len(r0_waveforms)
        n_pixels == Len(r0_waveforms[1])
        n_samples == Len(r0_waveforms[1][1])
        ped == PedPerSample(pedestal, n_pixels, n_samples)
        r1_all == CalibrateAllChannels(r0_waveforms, ped, dc_to_pe)
    IN  IF SelectorFails(gain_selector)
        THEN [calibrated |-> r1_all,
              selector_called |-> TRUE,
              raised |-> "SelectorError",
              selected_gain_channel |-> <<>>,
              r1_waveforms |-> <<>>]
        ELSE LET selected == SelectGainChannel(gain_selector, r0_waveforms, r1_all)
             IN [calibrated |-> r1_all,
                 selector_called |-> TRUE,
                 raised |-> None,
                 selected_gain_channel |-> selected,
                 r1_waveforms |-> IF n_channels = 1 THEN r1_all[1]
                                  ELSE GatherChannel(r1_all, selected, n_pixels)]

apply_simtel_r1_calibration(r0_waveforms, pedestal, dc_to_pe, gain_selector) ==
    LET n_channels == Len(r0_waveforms)
        n_pixels == Len(r0_waveforms[1])
        n_samples == Len(r0_waveforms[1][1])
        ped == PedPerSample(pedestal, n_pixels, n_samples)
        r1_all == CalibrateAllChannels(r0_waveforms, ped, dc_to_pe)
    IN  IF n_channels = 1
        THEN [calibrated |-> r1_all,
              selector_called |-> FALSE,
              raised |-> None,
              selected_gain_channel |-> Zeros(n_pixels),
              r1_waveforms |-> r1_all[1]]
        ELSE IF SelectorFails(gain_selector)
        THEN [calibrated |-> r1_all,
              selector_called |-> TRUE,
              raised |-> "SelectorError",
              selected_gain_channel |-> <<>>,
              r1_waveforms |-> <<>>]
        ELSE LET selected == SelectGainChannel(gain_selector, r0_waveforms, r1_all)
             IN [calibrated |-> r1_all,
                 selector_called |-> TRUE,
                 raised |-> None,
                 selected_gain_channel |-> selected,
                 r1_waveforms |-> GatherChannel(r1_all, selected, n_pixels)]


(***************************************************************************)
(* The SimTelFile behind self.file_ (eventio, an external library).  A     *)
(* file on disk is its compression, its header, its telescope descriptions *)
(* (a dict: here a sequence of descriptions with distinct tel_id, in the   *)
(* dict's order), its complete array events and how it ends.               *)
(* Positions count the objects of the file: the run header and the         *)
(* telescope descriptions come first, then one array event per position.   *)
(***************************************************************************)
\* SimTelFile(path, zcat=...): the kind of file handle eventio reads from.
OpenHandle(compression, zcat) ==
    CASE compression = "plain" -> "BufferedReader"
      [] compression = "gzip" -> IF zcat THEN "ZcatPipe" ELSE "GzipFile"
      [] compression = "zstd" -> "ZstdStream"

\* isinstance(handle, BufferedReader): a plain file, or the pipe of a zcat process.
IsBufferedReader(handle) == handle \in {"BufferedReader", "ZcatPipe"}

\* Whether the handle can seek backwards.
Seekable(handle) == handle \in {"BufferedReader", "GzipFile"}

\* The position after the run header and the telescope descriptions.
HeaderEnd(disk) == Len(disk.telescope_descriptions) + 1

SimTelFile(disk, allowed_telescopes, zcat) ==
    [handle |-> OpenHandle(disk.compression, zcat),
     allowed_telescopes |-> allowed_telescopes,
     header |-> disk.header,
     telescope_descriptions |-> disk.telescope_descriptions,
     mc_run_headers |-> disk.mc_run_headers,
     records |-> disk.records,
     ending |-> disk.ending,
     pos |-> HeaderEnd(disk),
     next_header_pos |-> HeaderEnd(disk),
     close_calls |-> 0]

\* SimTelEventSource.is_stream
is_stream(f) == ~(IsBufferedReader(f.handle) \/ f.handle = "GzipFile")

(***************************************************************************)
(* ctapipe.instrument: guess_telescope, UNKNOWN_TELESCOPE and               *)
(* CameraGeometry.simtel_shape_to_type.  Focal lengths are in centimetres. *)
(***************************************************************************)
UNKNOWN_TELESCOPE ==
    [name |-> "UNKNOWN", type |-> "UNKNOWN", camera_name |-> "UNKNOWN",
     n_mirrors |-> -1]

TelescopeTable ==
    { [n_pixels |-> 1855, focal_length |-> 2800,
       telescope |-> [name |-> "LST", type |-> "LST", camera_name |-> "LSTCam",
                      n_mirrors |-> 1]],
      [n_pixels |-> 1855, focal_length |-> 1600,
       telescope |-> [name |-> "MST", type |-> "MST", camera_name |-> "NectarCam",
                      n_mirrors |-> 1]],
      [n_pixels |-> 2048, focal_length |-> 228,
       telescope |-> [name |-> "ASTRI", type |-> "SST", camera_name |-> "ASTRICam",
                      n_mirrors |-> 2]] }

\* guess_telescope(n_pixels, focal_length): [found, telescope]; not found is
\* the ValueError.
TableHits(n_pixels, focal_length) ==
    {e \in TelescopeTable : e.n_pixels = n_pixels /\ e.focal_length = focal_length}

guess_telescope(n_pixels, focal_length) ==
    IF TableHits(n_pixels, focal_length) = {}
    THEN [found |-> FALSE, telescope |-> UNKNOWN_TELESCOPE]
    ELSE [found |-> TRUE,
          telescope |-> (CHOOSE e \in TableHits(n_pixels, focal_length) : TRUE).telescope]

\* CameraGeometry.simtel_shape_to_type(pixel_shape): [known, pix_type,
\* pix_rotation]; not known is the ValueError.
simtel_shape_to_type(pixel_shape) ==
    CASE pixel_shape = 0 -> [known |-> TRUE, pix_type |-> "hexagon", pix_rotation |-> 0]
      [] pixel_shape = 1 -> [known |-> TRUE, pix_type |-> "hexagon", pix_rotation |-> 30]
      [] pixel_shape = 2 -> [known |-> TRUE, pix_type |-> "square", pix_rotation |-> 0]
      [] OTHER -> [known |-> FALSE, pix_type |-> "", pix_rotation |-> 0]

(***************************************************************************)
(* build_camera: the CameraDescription and the warnings emitted.           *)
(***************************************************************************)
\* pix_type, pix_rotation: from simtel_shape_to_type, or hexagon and 0 degrees
PixType(pixel_shape) ==
    IF simtel_shape_to_type(pixel_shape).known
    THEN simtel_shape_to_type(pixel_shape).pix_type ELSE "hexagon"

PixRotation(pixel_shape) ==
    IF simtel_shape_to_type(pixel_shape).known
    THEN simtel_shape_to_type(pixel_shape).pix_rotation ELSE 0

build_camera_silent(cam_settings, pixel_settings, telescope) ==
    [camera |->
        [camera_name |-> telescope.camera_name,
         geometry |-> [camera_name |-> telescope.camera_name,
                       n_pixels |-> cam_settings.n_pixels,
                       pix_type |-> PixType(cam_settings.pixel_shape),
                       pix_rotation |-> PixRotation(cam_settings.pixel_shape),
                       cam_rotation |-> -cam_settings.cam_rot],
         readout |-> [camera_name |-> telescope.camera_name,
                      time_slice |-> pixel_settings.time_slice,
                      reference_pulse_shape |-> pixel_settings.ref_shape,
                      reference_pulse_sample_width |-> pixel_settings.ref_step]],
     warnings |-> {}]

build_camera(cam_settings, pixel_settings, telescope) ==
    [camera |->
        [camera_name |-> telescope.camera_name,
         geometry |-> [camera_name |-> telescope.camera_name,
                       n_pixels |-> cam_settings.n_pixels,
                       pix_type |-> PixType(cam_settings.pixel_shape),
                       pix_rotation |-> PixRotation(cam_settings.pixel_shape),
                       cam_rotation |-> -cam_settings.cam_rot],
         readout |-> [camera_name |-> telescope.camera_name,
                      time_slice |-> pixel_settings.time_slice,
                      reference_pulse_shape |-> pixel_settings.ref_shape,
                      reference_pulse_sample_width |-> pixel_settings.ref_step]],
     warnings |-> IF simtel_shape_to_type(cam_settings.pixel_shape).known
                  THEN {} ELSE {"UnknownPixelShapeWarning"}]

(***************************************************************************)
(* prepare_subarray_info.  A camera object is its index in the sequence    *)
(* objects: two references are the same object iff the indices are equal.  *)
(* The state threaded through the loop over the telescopes:                *)
(*   cache, objects      self._camera_cache and the camera objects,        *)
(*   tel_descriptions, tel_positions   the two dicts being filled,         *)
(*   raised              the exception that ended the call, or None.       *)
(* resolved_camera_name of a TelescopeDescription records the camera name  *)
(* the telescope resolved to, whatever camera object it was then given.    *)
(***************************************************************************)
\* camera = self._camera_cache.get(name); if camera is None: build and insert
InsertCamera(b, name, built) ==
    [b EXCEPT !.camera = Len(b.objects) + 1,
              !.objects = Append(b.objects, built.camera),
              !.cache = [n \in DOMAIN b.cache \cup {name} |->
                            IF n = name THEN Len(b.objects) + 1 ELSE b.cache[n]],
              !.warnings = b.warnings \cup built.warnings]

CameraFromCacheAlwaysBuild(b, cam_settings, pixel_settings, telescope) ==
    InsertCamera(b, telescope.camera_name,
                 build_camera(cam_settings, pixel_settings, telescope))

CameraFromCache(b, cam_settings, pixel_settings, telescope) ==
    IF telescope.camera_name \in DOMAIN b.cache
    THEN [b EXCEPT !.camera = b.cache[telescope.camera_name]]
    ELSE InsertCamera(b, telescope.camera_name,
                      build_camera(cam_settings, pixel_settings, telescope))

\* np.where(header["tel_id"] == tel_id)[0]: the indices, ascending
HeaderIndices(header, tel_id) ==
    {i \in DOMAIN header.tel_id : header.tel_id[i] = tel_id}

Min(S) == CHOOSE x \in S : \A y \in S : x <= y

\* telescope = guess_telescope(...), or UNKNOWN_TELESCOPE on its ValueError
GuessOrUnknown(n_pixels, focal_length) ==
    IF guess_telescope(n_pixels, focal_length).found
    THEN guess_telescope(n_pixels, focal_length).telescope
    ELSE UNKNOWN_TELESCOPE

\* optics = OpticsDescription(...)
Optics(cam_settings, telescope, focal_length) ==
    [name |-> telescope.name,
     num_mirrors |-> telescope.n_mirrors,
     equivalent_focal_length |-> focal_length,
     mirror_area |-> cam_settings.mirror_area,
     num_mirror_tiles |-> cam_settings.n_mirrors]

\* tel_descriptions[tel_id] = TelescopeDescription(...), with the camera b.camera
StoreDescription(b, d, telescope, focal_length) ==
    [b EXCEPT !.tel_descriptions =
        [t \in DOMAIN b.tel_descriptions \cup {d.tel_id} |->
            IF t = d.tel_id
            THEN [name |-> telescope.name,
                  resolved_camera_name |-> telescope.camera_name,
                  tel_type |-> telescope.type,
                  optics |-> Optics(d.camera_settings, telescope, focal_length),
                  camera |-> b.camera]
            ELSE b.tel_descriptions[t]]]

\* tel_idx = np.where(...)[0][0]; tel_positions[tel_id] = header["tel_pos"][tel_idx]
StorePositionLast(b, d, header) ==
    IF HeaderIndices(header, d.tel_id) = {}
    THEN [b EXCEPT !.raised = "IndexError"]
    ELSE [b EXCEPT !.tel_positions =
            [t \in DOMAIN b.tel_positions \cup {d.tel_id} |->
                IF t = d.tel_id
                THEN header.tel_pos[CHOOSE i \in HeaderIndices(header, d.tel_id) :
                        \A j \in HeaderIndices(header, d.tel_id) : j <= i]
                ELSE b.tel_positions[t]]]

StorePosition(b, d, header) ==
    IF HeaderIndices(header, d.tel_id) = {}
    THEN [b EXCEPT !.raised = "IndexError"]
    ELSE [b EXCEPT !.tel_positions =
            [t \in DOMAIN b.tel_positions \cup {d.tel_id} |->
                IF t = d.tel_id
                THEN header.tel_pos[Min(HeaderIndices(header, d.tel_id))]
                ELSE b.tel_positions[t]]]

\* The loop body from guess_telescope on, for the focal length chosen.
PrepareWithFocalLengthNoCatch(b, d, header, focal_length) ==
    IF guess_telescope(d.camera_settings.n_pixels, focal_length).found
    THEN StorePosition(
            StoreDescription(
                CameraFromCache(b, d.camera_settings, d.pixel_settings,
                    guess_telescope(d.camera_settings.n_pixels, focal_length).telescope),
                d, guess_telescope(d.camera_settings.n_pixels, focal_length).telescope,
                focal_length),
            d, header)
    ELSE [b EXCEPT !.raised = "ValueError"]

PrepareWithFocalLength(b, d, header, focal_length) ==
    StorePosition(
        StoreDescription(
            CameraFromCache(b, d.camera_settings, d.pixel_settings,
                            GuessOrUnknown(d.camera_settings.n_pixels, focal_length)),
            d, GuessOrUnknown(d.camera_settings.n_pixels, focal_length), focal_length),
        d, header)

\* One pass of the loop body, for telescope_description d.
PrepareTelescopeNominalFallback(b, d, header, focal_choice) ==
    IF focal_choice = "effective" /\ d.camera_settings.has_effective_focal_length
    THEN PrepareWithFocalLength(b, d, header,
                                d.camera_settings.effective_focal_length)
    ELSE PrepareWithFocalLength(b, d, header, d.camera_settings.focal_length)

PrepareTelescope(b, d, header, focal_choice) ==
    IF focal_choice = "effective"
    THEN IF d.camera_settings.has_effective_focal_length
         THEN PrepareWithFocalLength(b, d, header,
                                     d.camera_settings.effective_focal_length)
         ELSE [b EXCEPT !.raised = "RuntimeError"]
    ELSE PrepareWithFocalLength(b, d, header, d.camera_settings.focal_length)

RECURSIVE PrepareLoop(_, _, _, _, _)
PrepareLoop(b, telescope_descriptions, i, header, focal_choice) ==
    IF i > Len(telescope_descriptions) \/ b.raised # None THEN b
    ELSE PrepareLoop(
            PrepareTelescope(b, telescope_descriptions[i], header, focal_choice),
            telescope_descriptions, i + 1, header, focal_choice)

\* The whole call: [raised, subarray, cache, objects, warnings].
prepare_subarray_info(cache, objects, telescope_descriptions, header, focal_choice) ==
    LET b == PrepareLoop(
                [cache |-> cache, objects |-> objects, camera |-> 0,
                 tel_descriptions |-> <<>>, tel_positions |-> <<>>,
                 warnings |-> {}, raised |-> None],
                telescope_descriptions, 1, header, focal_choice)
    IN  [raised |-> b.raised,
         subarray |-> [built |-> b.raised = None,
                       name |-> "MonteCarloArray",
                       tel_positions |-> IF b.raised = None THEN b.tel_positions ELSE <<>>,
                       tel_descriptions |-> IF b.raised = None THEN b.tel_descriptions
                                            ELSE <<>>],
         cache |-> b.cache,
         objects |-> b.objects,
         warnings |-> b.warnings]

NoSubarray ==
    [built |-> FALSE, name |-> "", tel_positions |-> <<>>, tel_descriptions |-> <<>>]

NoFile ==
    [handle |-> "", allowed_telescopes |-> {}, header |-> <<>>,
     telescope_descriptions |-> <<>>, mc_run_headers |-> <<>>, records |-> <<>>,
     ending |-> "clean", pos |-> 0, next_header_pos |-> 0, close_calls |-> 0]

NoHeader == [run |-> 0, tel_id |-> <<>>, tel_pos |-> <<>>]

\* The latest prepare_subarray_info call: its arguments and what it returned.
NoBuild ==
    [call |-> "", table |-> <<>>, header |-> NoHeader, raised |-> None,
     subarray |-> NoSubarray]

NoGenerator == [state |-> "none", counter |-> 0]

(***************************************************************************)
(* SimTelEventSource.__init__, as far as it gets: the fields of the source *)
(* and the exception raised, if any.                                       *)
(***************************************************************************)
\* if self.back_seekable and self.is_stream: raise IOError(...)
SeekCheckFailsNever(seekable, f) == FALSE

SeekCheckFails(seekable, f) == seekable /\ is_stream(f)

SourceInit(disk, allowed, seekable, focal_choice) ==
    LET f == SimTelFile(disk, allowed, ~seekable)
    IN  IF SeekCheckFails(seekable, f)
        THEN [raised |-> "IOError", file_ |-> f, camera_cache |-> <<>>,
              cameras |-> <<>>, subarray_info |-> NoSubarray, start_pos |-> -1,
              warnings |-> {}]
        ELSE LET r == prepare_subarray_info(<<>>, <<>>, f.telescope_descriptions,
                                            f.header, focal_choice)
             IN  [raised |-> r.raised, file_ |-> f, camera_cache |-> r.cache,
                  cameras |-> r.objects, subarray_info |-> r.subarray,
                  start_pos |-> IF r.raised = None THEN f.pos ELSE -1,
                  warnings |-> r.warnings]

(***************************************************************************)
(* Reading array events from the SimTelFile.  Iterating seeks to           *)
(* next_header_pos and reads on from there; a position inside the header   *)
(* reads the header objects again and then the first array event.  After   *)
(* the last complete array event the stream ends, cleanly (StopIteration)  *)
(* or inside an object (EOFError).  A handle that cannot seek backwards    *)
(* fails the seek to an earlier position.                                  *)
(***************************************************************************)
NoArrayEvent == [type |-> "", event_id |-> 0]

\* The index in records of the array event that follows position pos.
NextIndex(f, pos) ==
    IF pos < Len(f.telescope_descriptions) + 1 THEN 1
    ELSE pos - Len(f.telescope_descriptions)

ReadNext(f) ==
    IF f.next_header_pos < f.pos /\ ~Seekable(f.handle)
    THEN [outcome |-> "UnsupportedOperation", file |-> f, index |-> 0,
          array_event |-> NoArrayEvent]
    ELSE IF NextIndex(f, f.next_header_pos) <= Len(f.records)
    THEN [outcome |-> "event",
          file |-> [f EXCEPT
                      !.pos = Len(f.telescope_descriptions) + 1
                                 + NextIndex(f, f.next_header_pos),
                      !.next_header_pos = Len(f.telescope_descriptions) + 1
                                 + NextIndex(f, f.next_header_pos)],
          index |-> NextIndex(f, f.next_header_pos),
          array_event |-> f.records[NextIndex(f, f.next_header_pos)]]
    ELSE [outcome |-> IF f.ending = "truncated" THEN "EOFError" ELSE "StopIteration",
          file |-> [f EXCEPT
                      !.pos = Len(f.telescope_descriptions) + 1 + Len(f.records),
                      !.next_header_pos =
                          Len(f.telescope_descriptions) + 1 + Len(f.records)],
          index |-> 0,
          array_event |-> NoArrayEvent]

(***************************************************************************)
(* The EventAndMonDataContainer.  A float is [nan, val], angles are in     *)
(* milliradians.  The per-telescope maps (r0.tel, r1.tel, mc.tel,          *)
(* pointing) are functions from the tel_ids that have an entry.            *)
(* An entry of yielded is what the consumer received: the container object *)
(* (its number among the containers of the run), the place of the array    *)
(* event in the stream and the container's content at the yield.           *)
(***************************************************************************)
Float(v) == [nan |-> FALSE, val |-> v]
NanFloat == [nan |-> TRUE, val |-> 0]

\* np.isnan
isnan(x) == x.nan

NoShower == [filled |-> FALSE, energy |-> 0, core_x |-> 0]
NoRunHeader == [filled |-> FALSE, corsika_version |-> 0]

\* data = EventAndMonDataContainer()
NewContainer ==
    [event_type |-> "",
     count |-> 0,
     inst_subarray |-> NoSubarray,
     index |-> [obs_id |-> -1, event_id |-> -1],
     r0 |-> [obs_id |-> -1, event_id |-> -1, tels_with_data |-> {}, tel |-> <<>>],
     r1 |-> [obs_id |-> -1, event_id |-> -1, tels_with_data |-> {}, tel |-> <<>>],
     dl0 |-> [obs_id |-> -1, event_id |-> -1, tels_with_data |-> {}, tel |-> <<>>],
     dl1 |-> [tel |-> <<>>],
     trig |-> [tels_with_trigger |-> {}, gps_time |-> <<0, 0>>],
     mc |-> [shower |-> NoShower, tel |-> <<>>],
     mcheader |-> NoRunHeader,
     pointing |-> <<>>]

\* if data.event_type == "calibration": event_id = -1, else array_event["event_id"]
EventIdNative(array_event) == array_event.event_id

EventId(array_event) ==
    IF array_event.type = "calibration" THEN -1 ELSE array_event.event_id

\* Lines 298-322: the part of the loop body before the telescope filter.
BeginEventCountsYields(d, array_event, counter, f) ==
    [d EXCEPT
        !.event_type = array_event.type,
        !.inst_subarray = subarray_info,
        !.count = Len(yielded),
        !.index = [obs_id |-> f.header.run, event_id |-> EventId(array_event)],
        !.r0.obs_id = f.header.run,
        !.r0.event_id = EventId(array_event),
        !.r0.tels_with_data = DOMAIN array_event.telescope_events,
        !.r1.obs_id = f.header.run,
        !.r1.event_id = EventId(array_event),
        !.r1.tels_with_data = DOMAIN array_event.telescope_events,
        !.dl0.obs_id = f.header.run,
        !.dl0.event_id = EventId(array_event),
        !.dl0.tels_with_data = DOMAIN array_event.telescope_events]

BeginEvent(d, array_event, counter, f) ==
    [d EXCEPT
        !.event_type = array_event.type,
        !.inst_subarray = subarray_info,
        !.count = counter,
        !.index = [obs_id |-> f.header.run, event_id |-> EventId(array_event)],
        !.r0.obs_id = f.header.run,
        !.r0.event_id = EventId(array_event),
        !.r0.tels_with_data = DOMAIN array_event.telescope_events,
        !.r1.obs_id = f.header.run,
        !.r1.event_id = EventId(array_event),
        !.r1.tels_with_data = DOMAIN array_event.telescope_events,
        !.dl0.obs_id = f.header.run,
        !.dl0.event_id = EventId(array_event),
        !.dl0.tels_with_data = DOMAIN array_event.telescope_events]

\* selected = tels_with_data & self.allowed_tels
SelectedAll(tels_with_data) == tels_with_data

Selected(tels_with_data) == tels_with_data \cap allowed_tels

\* if len(selected) == 0: continue
SkipNever(selected) == FALSE

SkipEvent(selected) == Cardinality(selected) = 0

\* data.r0.tels_with_data = selected, and the same for r1 and dl0
StoreSelected(d, selected) ==
    [d EXCEPT !.r0.tels_with_data = selected,
              !.r1.tels_with_data = selected,
              !.dl0.tels_with_data = selected]

\* Lines 334-340: trigger information.
FillTrigger(d, array_event) ==
    [d EXCEPT !.trig = [tels_with_trigger |->
                            array_event.trigger_information.triggered_telescopes,
                        gps_time |-> array_event.trigger_information.gps_time]]

\* fill_mc_information: the shower of the array event and the latest run header.
fill_mc_information(d, array_event, f) ==
    [d EXCEPT !.mc.shower = [filled |-> TRUE,
                             energy |-> array_event.mc_shower.energy,
                             core_x |-> array_event.mc_event.xcore],
              !.mcheader = [filled |-> TRUE,
                            corsika_version |->
                                f.mc_run_headers[Len(f.mc_run_headers)].shower_prog_vers]]

\* Lines 348-352: the per-telescope maps are emptied; data.pointing is not.
ClearTelsNever(d) == d

ClearTels(d) ==
    [d EXCEPT !.r0.tel = <<>>, !.r1.tel = <<>>, !.dl0.tel = <<>>,
              !.dl1.tel = <<>>, !.mc.tel = <<>>]

\* tel_index = self.file_.header["tel_id"].tolist().index(tel_id), from 0
TelIndex(f, tel_id) == Min(HeaderIndices(f.header, tel_id)) - 1

\* adc_samples, or adc_sums[:, :, np.newaxis]
AdcSamples(telescope_event) ==
    IF telescope_event.has_adc_samples THEN telescope_event.adc_samples
    ELSE [c \in DOMAIN telescope_event.adc_sums |->
            [p \in DOMAIN telescope_event.adc_sums[c] |->
                <<telescope_event.adc_sums[c][p]>>]]

\* array_event.get("photoelectrons", {}).get(tel_index, {})
\*            .get("photoelectrons", np.zeros(n_pixels))
PhotoElectronImage(array_event, tel_index, n_pixels) ==
    IF tel_index \in DOMAIN array_event.photoelectrons
    THEN array_event.photoelectrons[tel_index]
    ELSE [p \in 1..n_pixels |-> 0]

\* tracking_position.get(key, np.nan)
GetCorrected(tracking_position, key) ==
    IF key \in DOMAIN tracking_position.corrected
    THEN tracking_position.corrected[key] ELSE NanFloat

\* if np.isnan(cor): raw, else: cor
PreferRaw(cor, raw) == raw

PreferCorrected(cor, raw) == IF isnan(cor) THEN raw ELSE cor

\* Lines 373-385: data.pointing[tel_id]
Pointing(tracking_position) ==
    [azimuth |-> PreferCorrected(GetCorrected(tracking_position, "azimuth_cor"),
                                 tracking_position.azimuth_raw),
     altitude |-> PreferCorrected(GetCorrected(tracking_position, "altitude_cor"),
                                  tracking_position.altitude_raw)]

\* Lines 364-377: data.mc.tel[tel_id]
McTel(array_event, tel_id, tel_index, n_pixels) ==
    [dc_to_pe |-> array_event.laser_calibrations[tel_id],
     pedestal |-> array_event.camera_monitorings[tel_id],
     photo_electron_image |-> PhotoElectronImage(array_event, tel_index, n_pixels),
     azimuth_raw |-> array_event.tracking_positions[tel_id].azimuth_raw,
     altitude_raw |-> array_event.tracking_positions[tel_id].altitude_raw,
     azimuth_cor |-> GetCorrected(array_event.tracking_positions[tel_id], "azimuth_cor"),
     altitude_cor |-> GetCorrected(array_event.tracking_positions[tel_id], "altitude_cor")]

\* Lines 387-397: data.r0.tel[tel_id]
R0Tel(telescope_event) ==
    [waveform |-> AdcSamples(telescope_event),
     num_trig_pix |-> IF telescope_event.pixel_lists.has_list_0
                      THEN telescope_event.pixel_lists.pixels ELSE 0,
     trig_pix_id |-> IF telescope_event.pixel_lists.has_list_0
                        /\ telescope_event.pixel_lists.pixels > 0
                     THEN telescope_event.pixel_lists.pixel_list ELSE <<>>]

\* self.gain_selector: the ThresholdGainSelector unless one was given
DefaultGainSelector == "threshold"

\* Lines 390-392: data.r1.tel[tel_id]
R1Tel(array_event, tel_id) ==
    [waveform |->
        apply_simtel_r1_calibration(
            AdcSamples(array_event.telescope_events[tel_id]),
            array_event.camera_monitorings[tel_id],
            array_event.laser_calibrations[tel_id],
            DefaultGainSelector).r1_waveforms,
     selected_gain_channel |->
        apply_simtel_r1_calibration(
            AdcSamples(array_event.telescope_events[tel_id]),
            array_event.camera_monitorings[tel_id],
            array_event.laser_calibrations[tel_id],
            DefaultGainSelector).selected_gain_channel]

\* Lines 354-397: the loop over telescope_events, every telescope at once.
\* Each map gets or overwrites the entries of the array event's telescopes
\* and keeps the other entries it has.
FillTelescopes(d, array_event, f) ==
    [d EXCEPT
        !.mc.tel = [t \in DOMAIN d.mc.tel \cup DOMAIN array_event.telescope_events |->
                       IF t \in DOMAIN array_event.telescope_events
                       THEN McTel(array_event, t, TelIndex(f, t),
                                  Len(AdcSamples(array_event.telescope_events[t])[1]))
                       ELSE d.mc.tel[t]],
        !.pointing = [t \in DOMAIN d.pointing \cup DOMAIN array_event.telescope_events |->
                         IF t \in DOMAIN array_event.telescope_events
                         THEN Pointing(array_event.tracking_positions[t])
                         ELSE d.pointing[t]],
        !.r0.tel = [t \in DOMAIN d.r0.tel \cup DOMAIN array_event.telescope_events |->
                       IF t \in DOMAIN array_event.telescope_events
                       THEN R0Tel(array_event.telescope_events[t])
                       ELSE d.r0.tel[t]],
        !.r1.tel = [t \in DOMAIN d.r1.tel \cup DOMAIN array_event.telescope_events |->
                       IF t \in DOMAIN array_event.telescope_events
                       THEN R1Tel(array_event, t)
                       ELSE d.r1.tel[t]]]

\* if data.event_type == "data": self.fill_mc_information(data, array_event)
FillMc(d, array_event, f) ==
    IF d.event_type = "data" THEN fill_mc_information(d, array_event, f) ELSE d

\* Lines 334-397: from the trigger information to the yield.
AssembleEvent(d, array_event, f) ==
    FillTelescopes(ClearTels(FillMc(FillTrigger(d, array_event), array_event, f)),
                   array_event, f)

(***************************************************************************)
(* __generator, from the point it was suspended at (or from its start) to  *)
(* its next yield or its end: [outcome, file, data, counter, index], where *)
(* counter is enumerate's next value and index the yielded array event's   *)
(* place in the stream.                                                    *)
(***************************************************************************)
RECURSIVE GeneratorLoop(_, _, _)
RECURSIVE FilterEvent(_, _, _)

\* Lines 324-332 and on: the filter, then the rest of the body or continue.
FilterEvent(r, d, counter) ==
    IF Cardinality(allowed_tels) > 0
    THEN IF SkipEvent(Selected(d.r0.tels_with_data))
         THEN GeneratorLoop(r.file, d, counter + 1)
         ELSE [outcome |-> "yield", file |-> r.file,
               data |-> AssembleEvent(
                            StoreSelected(d, Selected(d.r0.tels_with_data)),
                            r.array_event, r.file),
               counter |-> counter + 1, index |-> r.index]
    ELSE [outcome |-> "yield", file |-> r.file,
          data |-> AssembleEvent(d, r.array_event, r.file),
          counter |-> counter + 1, index |-> r.index]

\* for counter, array_event in enumerate(self.file_): one array event
ProcessRead(r, d, counter) ==
    IF r.outcome = "event"
    THEN FilterEvent(r, BeginEvent(d, r.array_event, counter, r.file), counter)
    ELSE [outcome |-> r.outcome, file |-> r.file, data |-> d,
          counter |-> counter, index |-> 0]

\* One pass of the for loop: the next array event of the file, then the body.
GeneratorLoopReadTwice(f, d, counter) ==
    ProcessRead(ReadNext(ReadNext(f).file), d, counter)

GeneratorLoop(f, d, counter) == ProcessRead(ReadNext(f), d, counter)

\* _generator, lines 277-279: if self.file_.tell() > self.start_pos
BackseekNeeded(f) == f.pos > start_pos

GeneratorEntry(f) ==
    IF BackseekNeeded(f) THEN [f EXCEPT !.next_header_pos = 0] ELSE f

\* _generator, lines 281-288: an EOFError ends the generator with a warning,
\* the end of the stream ends it, any other exception reaches the consumer.
EndReraise(outcome) ==
    IF outcome = "StopIteration" THEN "done" ELSE "raised"

EndOfGenerator(outcome) ==
    IF outcome \in {"StopIteration", "EOFError"} THEN "done" ELSE "raised"

EofWarning == "EOFError reading from input_url. Might be truncated"
BackseekWarning == "Backseeking to start of file."

\* data = EventAndMonDataContainer() runs once, before the loop, and every
\* pass yields that object: the n-th yield of a run hands out the run's
\* container number 1.
ContainerOfYieldFresh(n) == n

ContainerOfYield(n) == 1

\* The source's variables after a pull that ran the generator to result r.
Resume(r, entry_warnings) ==
    /\ file_' = r.file
    /\ data' = r.data
    /\ gen' = [state |-> IF r.outcome = "yield" THEN "running"
                         ELSE EndOfGenerator(r.outcome),
               counter |-> r.counter]
    /\ yielded' = IF r.outcome = "yield"
                  THEN Append(yielded,
                              [index |-> r.index,
                               container |-> ContainerOfYield(Len(yielded) + 1),
                               event |-> r.data])
                  ELSE yielded
    /\ warned' = warned \cup entry_warnings
                    \cup (IF r.outcome = "EOFError" THEN {EofWarning} ELSE {})

\* g = source._generator(): nothing of the body runs before the first pull
StartGenerator ==
    /\ phase = "open"
    /\ gen.state # "created"
    /\ gen' = [state |-> "created", counter |-> 0]
    /\ yielded' = <<>>
    /\ warned' = {}
    /\ UNCHANGED <<monitoring, calib, phase, err, allowed_tels, back_seekable,
                   focal_length_choice, file_, camera_cache, cameras,
                   subarray_info, last_build, start_pos, data>>

\* next(g) on an open file
Pull ==
    /\ phase = "open"
    /\ gen.state \in {"created", "running"}
    /\ file_.close_calls = 0
    /\ IF gen.state = "created"
       THEN Resume(GeneratorLoop(GeneratorEntry(file_), NewContainer, 0),
                   IF BackseekNeeded(file_) THEN {BackseekWarning} ELSE {})
       ELSE Resume(GeneratorLoop(file_, data, gen.counter), {})
    /\ UNCHANGED <<monitoring, calib, phase, err, allowed_tels, back_seekable,
                   focal_length_choice, camera_cache, cameras, subarray_info,
                   last_build, start_pos>>

\* close(): self.file_.close()
CloseFile(f) == [f EXCEPT !.close_calls = f.close_calls + 1]

Close ==
    /\ phase = "open"
    /\ file_.close_calls < MaxCloseCalls
    /\ file_' = CloseFile(file_)
    /\ UNCHANGED <<monitoring, calib, phase, err, allowed_tels, back_seekable,
                   focal_length_choice, camera_cache, cameras, subarray_info,
                   last_build, start_pos, gen, data, yielded, warned>>

\* __exit__(exc_type, exc_val, exc_tb): self.close(), whatever ended the block
Exit ==
    /\ phase = "open"
    /\ file_.close_calls < MaxCloseCalls
    /\ \E exc_type \in {None, "Exception"} : file_' = CloseFile(file_)
    /\ UNCHANGED <<monitoring, calib, phase, err, allowed_tels, back_seekable,
                   focal_length_choice, camera_cache, cameras, subarray_info,
                   last_build, start_pos, gen, data, yielded, warned>>

(***************************************************************************)
(* FITSMonitoringSource (ctapipe/io/fitsmonitoringsource.py) and the        *)
(* constants of ctapipe/io/fitsdataformat.py.  A FITS file is the sequence  *)
(* of its HDUs; an HDU is [bintable, header, columns, rows]: whether it is  *)
(* a BinTableHDU, its header as a function from the keywords it has, the    *)
(* names of its columns and the number of its rows.  A stored table carries *)
(* the columns and rows of its HDU and its meta.                            *)
(***************************************************************************)
SOURCE == "MSOURCE"
NAME == "MNAME"
DESCRIPTION == "MDESC"

\* The column names (the keys) of the two data structures.
LST_DRIVE_DATA_STRUCT == {"time", "altitude", "azimuth"}
FRAM_DATA_STRUCT == {"timestamp", "ra", "dec", "aod", "aod_err"}

LST1_DRIVE == [name |-> "LST1Drive", data_struct |-> LST_DRIVE_DATA_STRUCT]
STPN_01 == [name |-> "STPN-01", data_struct |-> FRAM_DATA_STRUCT]

MONITORING_SOURCES ==
    [n \in {"LST1Drive", "STPN-01"} |-> IF n = "LST1Drive" THEN LST1_DRIVE ELSE STPN_01]

\* _detect_monitoring_source: the source name in the header, or None.
_detect_monitoring_source(hdu) ==
    IF SOURCE \in DOMAIN hdu.header
    THEN IF hdu.header[SOURCE] \notin DOMAIN MONITORING_SOURCES THEN None
         ELSE hdu.header[SOURCE]
    ELSE None

\* _validate_table_structure: whether no required column is missing.
_validate_table_structure_any(hdu, source_name) ==
    source_name \in DOMAIN MONITORING_SOURCES

_validate_table_structure(hdu, source_name) ==
    IF source_name \notin DOMAIN MONITORING_SOURCES THEN FALSE
    ELSE MONITORING_SOURCES[source_name].data_struct \ hdu.columns = {}

\* Table.read(hdu), with the metadata keywords the header has in its meta.
ReadTable(hdu) ==
    [columns |-> hdu.columns,
     rows |-> hdu.rows,
     meta |-> [k \in {"RADESYS", SOURCE, NAME, DESCRIPTION} \cap DOMAIN hdu.header |->
                  hdu.header[k]]]

\* _process_table: self._monitoring_sources[source_name] = table
_process_table(m, hdu, source_name) ==
    [m EXCEPT !.monitoring_sources =
        [n \in DOMAIN m.monitoring_sources \cup {source_name} |->
            IF n = source_name THEN ReadTable(hdu) ELSE m.monitoring_sources[n]]]

\* The loop over the HDUs of a file, from HDU i on: the first binary table
\* with a registered source and all its columns is stored and ends the loop.
RECURSIVE ProcessHdus(_, _, _)
ProcessHdus(m, hdul, i) ==
    IF i > Len(hdul) THEN m
    ELSE IF ~hdul[i].bintable THEN ProcessHdus(m, hdul, i + 1)
    ELSE IF _detect_monitoring_source(hdul[i]) = None
    THEN ProcessHdus([m EXCEPT !.warnings = m.warnings \cup {"no monitoring source"}],
                     hdul, i + 1)
    ELSE IF ~_validate_table_structure(hdul[i], _detect_monitoring_source(hdul[i]))
    THEN ProcessHdus([m EXCEPT !.warnings = m.warnings \cup {"missing columns"}],
                     hdul, i + 1)
    ELSE _process_table(m, hdul[i], _detect_monitoring_source(hdul[i]))

\* _process_single_file: the file is added to the provenance, then read.
_process_single_file(m, file) ==
    ProcessHdus([m EXCEPT !.provenance = m.provenance + 1, !.file = file], file, 1)

\* The FITSMonitoringSource: phase is "new", "reading" (in the loop over
\* input_files, with remaining files to go), "built" or "failed"; file is the
\* input file processed last.
NoMonitoring ==
    [phase |-> "new", err |-> None, n_files |-> 0, remaining |-> 0,
     provenance |-> 0, file |-> <<>>, monitoring_sources |-> <<>>, warnings |-> {}]

\* The HDUs of the input files: an image HDU, and binary tables without the
\* source keyword, with an unregistered source, with LST1Drive and all its
\* columns, with LST1Drive but the columns of STPN-01, with STPN-01 and all
\* its columns.
HduKinds ==
    { [bintable |-> FALSE,
       header |-> [k \in {SOURCE} |-> "LST1Drive"],
       columns |-> {}],
      [bintable |-> TRUE,
       header |-> [k \in {NAME} |-> "drive"],
       columns |-> LST_DRIVE_DATA_STRUCT],
      [bintable |-> TRUE,
       header |-> [k \in {SOURCE} |-> "MAGIC1Drive"],
       columns |-> LST_DRIVE_DATA_STRUCT],
      [bintable |-> TRUE,
       header |-> [k \in {SOURCE, "RADESYS"} |->
                     IF k = SOURCE THEN "LST1Drive" ELSE "ICRS"],
       columns |-> LST_DRIVE_DATA_STRUCT \cup {"extra"}],
      [bintable |-> TRUE,
       header |-> [k \in {SOURCE} |-> "LST1Drive"],
       columns |-> FRAM_DATA_STRUCT \cup {"time"}],
      [bintable |-> TRUE,
       header |-> [k \in {SOURCE, DESCRIPTION} |->
                     IF k = SOURCE THEN "STPN-01" ELSE "FRAM"],
       columns |-> FRAM_DATA_STRUCT] }

\* The HDU of a kind at place i of its file: it has i rows.
HduAt(kind, i) ==
    [bintable |-> kind.bintable, header |-> kind.header, columns |-> kind.columns,
     rows |-> i]

\* The input files: one to MaxHdus HDUs.
MonitoringFiles ==
    UNION { { [i \in 1..n |-> HduAt(kinds[i], i)] : kinds \in [1..n -> HduKinds] }
            : n \in 1..MaxHdus }

\* FITSMonitoringSource(input_files=...), up to the loop over the files: an
\* empty list raises InputMissing.
MonitoringInit ==
    /\ monitoring.phase = "new"
    /\ \E n_files \in 0..MaxFiles :
          monitoring' =
              IF n_files = 0
              THEN [monitoring EXCEPT !.phase = "failed", !.err = "InputMissing"]
              ELSE [monitoring EXCEPT !.phase = "reading", !.n_files = n_files,
                                      !.remaining = n_files]
    /\ UNCHANGED <<calib, phase, err, allowed_tels, back_seekable,
                   focal_length_choice, file_, camera_cache, cameras,
                   subarray_info, last_build, start_pos, gen, data, yielded, warned>>

\* The rest of __init__, one pass of the loop over input_files per step:
\* self._process_single_file(file) for the next file of the list.
ProcessSingleFile ==
    /\ monitoring.phase = "reading"
    /\ \E file \in MonitoringFiles :
          monitoring' =
              [_process_single_file(monitoring, file) EXCEPT
                  !.remaining = monitoring.remaining - 1,
                  !.phase = IF monitoring.remaining = 1 THEN "built" ELSE "reading"]
    /\ UNCHANGED <<calib, phase, err, allowed_tels, back_seekable,
                   focal_length_choice, file_, camera_cache, cameras,
                   subarray_info, last_build, start_pos, gen, data, yielded, warned>>

(***************************************************************************)
(* SpecCalib: one call of apply_simtel_r1_calibration.  The inputs are     *)
(* arrays of shape (n_channels, n_pixels, n_samples) with one or two gain  *)
(* channels: every pixel of every channel carries a pulse of its own       *)
(* amplitude in the last sample over a baseline of 1, the pedestal of      *)
(* pixel p of channel c is p times the channel's pedestal sum, and the     *)
(* conversion factor is one per channel.                                   *)
(***************************************************************************)
ChannelCounts == {1, 2}
Amplitudes == {10, 50}
PedestalSums == {0, 7}
ConversionFactors == {1, 4}

PulseWaveforms(amp, n_samples) ==
    [c \in DOMAIN amp |-> [p \in DOMAIN amp[c] |->
        [s \in 1..n_samples |-> IF s = n_samples THEN amp[c][p] ELSE 1]]]

CalibInputs ==
    UNION { UNION { UNION {
        { [r0_waveforms |-> PulseWaveforms(amp, n_samples),
           pedestal |-> [c \in 1..n_channels |-> [p \in 1..n_pixels |-> ped[c] * p]],
           dc_to_pe |-> [c \in 1..n_channels |-> [p \in 1..n_pixels |-> g[c]]],
           gain_selector |-> sel] :
            amp \in [1..n_channels -> [1..n_pixels -> Amplitudes]],
            ped \in [1..n_channels -> PedestalSums],
            g \in [1..n_channels -> ConversionFactors],
            sel \in GainSelectors }
        : n_samples \in 1..MaxSamples }
        : n_pixels \in 1..MaxPixels }
        : n_channels \in ChannelCounts }

NoCalib == [armed |-> FALSE, called |-> FALSE, input |-> None, result |-> None]

NewSource ==
    /\ phase = "new"
    /\ err = None
    /\ allowed_tels = {}
    /\ back_seekable = FALSE
    /\ focal_length_choice = "nominal"
    /\ file_ = NoFile
    /\ camera_cache = <<>>
    /\ cameras = <<>>
    /\ subarray_info = NoSubarray
    /\ last_build = NoBuild
    /\ start_pos = -1
    /\ gen = NoGenerator
    /\ data = NewContainer
    /\ yielded = <<>>
    /\ warned = {}
    /\ monitoring = NoMonitoring

InitCalib ==
    /\ \E input \in CalibInputs :
          calib = [armed |-> TRUE, called |-> FALSE, input |-> input, result |-> None]
    /\ NewSource

Calibrate ==
    /\ calib.armed
    /\ ~calib.called
    /\ calib' = [calib EXCEPT
          !.called = TRUE,
          !.result = apply_simtel_r1_calibration(
                        calib.input.r0_waveforms, calib.input.pedestal,
                        calib.input.dc_to_pe, calib.input.gain_selector)]
    /\ UNCHANGED sourceVars

NextCalib == Calibrate

SpecCalib == InitCalib /\ [][NextCalib]_vars

\* The shape of the call's raw waveforms.
CalN_channels == Len(calib.input.r0_waveforms)
CalN_pixels == Len(calib.input.r0_waveforms[1])
CalN_samples == Len(calib.input.r0_waveforms[1][1])

\* (raw[c,p,s] - pedestal[c,p] / N) * dc_to_pe[c,p] as one fraction over N.
ExpectedCalibrated(c, p, s) ==
    <<(calib.input.r0_waveforms[c][p][s] * CalN_samples - calib.input.pedestal[c][p])
          * calib.input.dc_to_pe[c][p],
      CalN_samples>>

\* C7: with one channel, pedestal all 0 and dc_to_pe all 1 the returned
\* waveform has shape (n_pixels, n_samples), equals the raw samples of
\* channel 0, and selected_gain_channel is all zero.
C7_IdentityCalibration ==
    ( /\ calib.called
      /\ CalN_channels = 1
      /\ \A p \in 1..CalN_pixels : calib.input.pedestal[1][p] = 0
      /\ \A p \in 1..CalN_pixels : calib.input.dc_to_pe[1][p] = 1 )
    => /\ DOMAIN calib.result.r1_waveforms = 1..CalN_pixels
       /\ \A p \in 1..CalN_pixels :
            /\ DOMAIN calib.result.r1_waveforms[p] = 1..CalN_samples
            /\ \A s \in 1..CalN_samples :
                 RatEq(calib.result.r1_waveforms[p][s],
                       RatInt(calib.input.r0_waveforms[1][p][s]))
       /\ calib.result.selected_gain_channel = [p \in 1..CalN_pixels |-> 0]

C7_Witness ==
    /\ calib.called
    /\ CalN_channels = 1
    /\ CalN_pixels > 1
    /\ CalN_samples > 1
    /\ \A p \in 1..CalN_pixels :
          calib.input.pedestal[1][p] = 0 /\ calib.input.dc_to_pe[1][p] = 1
    /\ \E p \in 1..CalN_pixels : calib.input.r0_waveforms[1][p][CalN_samples] = 50

\* C8: before channel selection every calibrated value is
\* (raw[c,p,s] - pedestal[c,p] / N) * dc_to_pe[c,p], N the number of samples.
C8_PedestalPerSampleThenScale ==
    calib.called =>
        \A c \in 1..CalN_channels : \A p \in 1..CalN_pixels : \A s \in 1..CalN_samples :
            RatEq(calib.result.calibrated[c][p][s], ExpectedCalibrated(c, p, s))

C8_Witness ==
    /\ calib.called
    /\ CalN_samples = 3
    /\ CalN_pixels > 1
    /\ \E c \in 1..CalN_channels :
          /\ calib.input.pedestal[c][1] = 7
          /\ calib.input.dc_to_pe[c][1] = 4
          /\ calib.result.calibrated[c][1][3] = <<(3 * 50 - 7) * 4, 3>>

\* C9: with more than one channel the selector (one that returns) is given
\* the raw waveforms, its output is returned as selected_gain_channel, and the waveform of pixel
\* p is the calibrated sample vector of channel selected[p] of pixel p.
C9_PerPixelGather ==
    (calib.called /\ CalN_channels > 1 /\ ~SelectorFails(calib.input.gain_selector)) =>
        /\ calib.result.selector_called
        /\ calib.result.selected_gain_channel =
              CallGainSelector(calib.input.gain_selector,
                               AsRat(calib.input.r0_waveforms))
        /\ DOMAIN calib.result.r1_waveforms = 1..CalN_pixels
        /\ \A p \in 1..CalN_pixels :
              /\ DOMAIN calib.result.r1_waveforms[p] = 1..CalN_samples
              /\ \A s \in 1..CalN_samples :
                    RatEq(calib.result.r1_waveforms[p][s],
                          ExpectedCalibrated(
                              calib.result.selected_gain_channel[p] + 1, p, s))

\* Two pixels with different channels selected, where the selector would have
\* answered differently on the calibrated waveforms.
C9_Witness ==
    /\ calib.called
    /\ CalN_channels = 2
    /\ calib.input.gain_selector = "threshold"
    /\ \E p, q \in 1..CalN_pixels :
          /\ calib.result.selected_gain_channel[p] = 0
          /\ calib.result.selected_gain_channel[q] = 1
          /\ ~RatEq(calib.result.calibrated[1][q][CalN_samples],
                    calib.result.calibrated[2][q][CalN_samples])
    /\ CallGainSelector("threshold", calib.result.calibrated)
          # calib.result.selected_gain_channel

\* C26: with one channel the selector is not called, whatever it is and
\* whatever the pedestal and the conversion factors are: the call returns,
\* selected_gain_channel is zero for every pixel and the waveform is that of
\* the only channel.
C26_SingleChannelSkipsSelector ==
    (calib.called /\ CalN_channels = 1) =>
        /\ ~calib.result.selector_called
        /\ calib.result.raised = None
        /\ DOMAIN calib.result.selected_gain_channel = 1..CalN_pixels
        /\ \A p \in 1..CalN_pixels : calib.result.selected_gain_channel[p] = 0
        /\ \A p \in 1..CalN_pixels : \A s \in 1..CalN_samples :
              RatEq(calib.result.r1_waveforms[p][s], ExpectedCalibrated(1, p, s))

\* One channel, a selector that raises when called, pedestal and conversion
\* factor not neutral, a pulse above the threshold.
C26_Witness ==
    /\ calib.called
    /\ CalN_channels = 1
    /\ CalN_pixels > 1
    /\ calib.input.gain_selector = "failing"
    /\ calib.input.pedestal[1][1] = 7
    /\ calib.input.dc_to_pe[1][1] = 4
    /\ calib.input.r0_waveforms[1][1][CalN_samples] = 50
    /\ calib.result.raised = None

(***************************************************************************)
(* SpecBuild: the construction of a source over a file on disk, and later  *)
(* calls of prepare_subarray_info on the opened source.                    *)
(***************************************************************************)
\* Raw telescope descriptions: an LST with and without an effective focal
\* length, an MST with square pixels, and two telescopes the lookup does not
\* know, with different pixel counts, one of them with an unknown pixel shape.
DescriptionShapes ==
    { [n_pixels |-> 1855, focal_length |-> 2800, has_effective_focal_length |-> TRUE,
       effective_focal_length |-> 2930, pixel_shape |-> 0],
      [n_pixels |-> 1855, focal_length |-> 2800, has_effective_focal_length |-> FALSE,
       effective_focal_length |-> 0, pixel_shape |-> 0],
      [n_pixels |-> 1855, focal_length |-> 1600, has_effective_focal_length |-> FALSE,
       effective_focal_length |-> 0, pixel_shape |-> 2],
      [n_pixels |-> 7, focal_length |-> 100, has_effective_focal_length |-> FALSE,
       effective_focal_length |-> 0, pixel_shape |-> 99],
      [n_pixels |-> 9, focal_length |-> 100, has_effective_focal_length |-> TRUE,
       effective_focal_length |-> 110, pixel_shape |-> 0] }

TelescopeDescription(tel_id, shape) ==
    [tel_id |-> tel_id,
     camera_settings |->
        [n_pixels |-> shape.n_pixels,
         focal_length |-> shape.focal_length,
         has_effective_focal_length |-> shape.has_effective_focal_length,
         effective_focal_length |-> shape.effective_focal_length,
         pixel_shape |-> shape.pixel_shape,
         mirror_area |-> 100 + tel_id,
         n_mirrors |-> 198,
         cam_rot |-> 0],
     pixel_settings |-> [time_slice |-> 1, ref_shape |-> <<0, 1, 0>>, ref_step |-> 1]]

\* The description tables of the telescopes 1..n, n up to MaxTels.
DescriptionTables ==
    UNION { { [i \in 1..n |-> TelescopeDescription(i, shapes[i])] :
                shapes \in [1..n -> DescriptionShapes] } : n \in 1..MaxTels }

\* The header of a file with this description table.
HeaderOf(table) ==
    [run |-> 7,
     tel_id |-> [i \in DOMAIN table |-> table[i].tel_id],
     tel_pos |-> [i \in DOMAIN table |-> <<10 * table[i].tel_id, 0, 0>>]]

BuildDisks ==
    { [compression |-> c, header |-> HeaderOf(table),
       telescope_descriptions |-> table,
       mc_run_headers |-> <<[shower_prog_vers |-> 6990]>>,
       records |-> <<>>, ending |-> "clean"] :
        c \in {"plain", "gzip", "zstd"}, table \in DescriptionTables }

InitBuild ==
    /\ calib = NoCalib
    /\ NewSource

\* source = SimTelEventSource(input_url=..., allowed_tels=..., back_seekable=...,
\*                            focal_length_choice=...)
Construct ==
    /\ phase = "new"
    /\ \E disk \in BuildDisks, seekable \in BOOLEAN,
          focal_choice \in {"nominal", "effective"} :
          LET r == SourceInit(disk, {}, seekable, focal_choice)
          IN  /\ phase' = IF r.raised = None THEN "open" ELSE "failed"
              /\ err' = r.raised
              /\ allowed_tels' = {}
              /\ back_seekable' = seekable
              /\ focal_length_choice' = focal_choice
              /\ file_' = r.file_
              /\ camera_cache' = r.camera_cache
              /\ cameras' = r.cameras
              /\ subarray_info' = r.subarray_info
              /\ last_build' = IF r.raised = "IOError" THEN NoBuild
                                ELSE [call |-> "init",
                                      table |-> disk.telescope_descriptions,
                                      header |-> disk.header, raised |-> r.raised,
                                      subarray |-> r.subarray_info]
              /\ start_pos' = r.start_pos
              /\ warned' = r.warnings
    /\ UNCHANGED <<monitoring, calib, gen, data, yielded>>

\* The tables of the later calls: the file's own, or one telescope's description.
LaterTables ==
    {file_.telescope_descriptions} \cup {table \in DescriptionTables : Len(table) = 1}

\* A header that lists the telescopes of table in reverse order and then the
\* table's first telescope once more, at another position.
HeaderRepeating(table) ==
    [run |-> 7,
     tel_id |-> [i \in 1..(Len(table) + 1) |->
                    IF i <= Len(table) THEN table[Len(table) + 1 - i].tel_id
                    ELSE table[1].tel_id],
     tel_pos |-> [i \in 1..(Len(table) + 1) |->
                    IF i <= Len(table)
                    THEN <<10 * table[Len(table) + 1 - i].tel_id, i, 0>>
                    ELSE <<10 * table[1].tel_id, 0, 99>>]]

\* A header that lacks the table's last telescope.
HeaderLacking(table) ==
    [run |-> 7,
     tel_id |-> [i \in 1..(Len(table) - 1) |-> table[i].tel_id],
     tel_pos |-> [i \in 1..(Len(table) - 1) |-> <<10 * table[i].tel_id, 0, 0>>]]

\* The headers of the later calls.
LaterHeaders(table) == {HeaderOf(table), HeaderRepeating(table), HeaderLacking(table)}

\* source.prepare_subarray_info(telescope_descriptions, header), called again
\* on the opened source
PrepareSubarrayInfo ==
    /\ phase = "open"
    /\ \E table \in LaterTables : \E header \in LaterHeaders(table) :
          LET r == prepare_subarray_info(camera_cache, cameras, table,
                                         header, focal_length_choice)
          IN  /\ camera_cache' = r.cache
              /\ cameras' = r.objects
              /\ last_build' = [call |-> "direct", table |-> table,
                                header |-> header, raised |-> r.raised,
                                subarray |-> r.subarray]
              /\ warned' = r.warnings
    /\ UNCHANGED <<monitoring, calib, phase, err, allowed_tels, back_seekable,
                   focal_length_choice, file_, subarray_info, start_pos,
                   gen, data, yielded>>

NextBuild == Construct \/ PrepareSubarrayInfo

SpecBuild == InitBuild /\ [][NextBuild]_vars

(***************************************************************************)
(* Spec: an opened source over a file of three telescopes, and the pulls   *)
(* on its generator.  The array event at place i of a stream has event id  *)
(* 100 + i, a type and a set of telescopes with data.  Telescope 1 has one *)
(* gain channel and telescopes 2 and 3 two; telescope 3 delivers charge    *)
(* sums instead of samples.                                                *)
(***************************************************************************)
EventTypes == {"data", "calibration"}
TelSets == {{1}, {3}, {1, 3}, {1, 2, 3}}
AllowLists == {{}, {1, 2}, {9}}

\* How a tracking position carries a corrected angle.
CorrectedCases == {"value", "nan", "absent"}

\* The corrected angles of a tracking position, for the two cases.
CorrectedAngles(az_case, alt_case, az_cor, alt_cor) ==
    [k \in (IF az_case = "absent" THEN {} ELSE {"azimuth_cor"})
            \cup (IF alt_case = "absent" THEN {} ELSE {"altitude_cor"}) |->
        IF k = "azimuth_cor"
        THEN (IF az_case = "nan" THEN NanFloat ELSE Float(az_cor))
        ELSE (IF alt_case = "nan" THEN NanFloat ELSE Float(alt_cor))]

\* The tracking position of telescope t in the array event at place i: raw
\* altitude 1.0 rad and corrected altitude 1.2 rad for telescope 1 at place 1.
TrackingPosition(i, t, cases) ==
    [azimuth_raw |-> Float(100 * i + t),
     altitude_raw |-> Float(1000 + 10 * (i - 1) + (t - 1)),
     corrected |-> CorrectedAngles(cases.azimuth, cases.altitude,
                                   100 * i + t + 50,
                                   1200 + 10 * (i - 1) + (t - 1))]

\* The pulse amplitude of pixel p of channel c of telescope t at place i.
Amplitude(i, t, c, p) == IF (i + t + c + p) % 2 = 0 THEN 50 ELSE 10

TelescopeEvent(i, t) ==
    [has_adc_samples |-> t # 3,
     adc_samples |-> [c \in 1..(IF t = 1 THEN 1 ELSE 2) |-> [p \in 1..2 |->
                        <<1, Amplitude(i, t, c, p)>>]],
     adc_sums |-> [c \in 1..(IF t = 1 THEN 1 ELSE 2) |-> [p \in 1..2 |->
                        1 + Amplitude(i, t, c, p)]],
     pixel_lists |-> [has_list_0 |-> t = 1, pixels |-> 1, pixel_list |-> <<2>>]]

ArrayEvent(i, type, tels, cases) ==
    [type |-> type,
     event_id |-> 100 + i,
     telescope_events |-> [t \in tels |-> TelescopeEvent(i, t)],
     tracking_positions |-> [t \in tels |-> TrackingPosition(i, t, cases[t])],
     laser_calibrations |-> [t \in tels |->
            [c \in 1..(IF t = 1 THEN 1 ELSE 2) |-> [p \in 1..2 |->
                IF c = 1 THEN 1 ELSE 4]]],
     camera_monitorings |-> [t \in tels |->
            [c \in 1..(IF t = 1 THEN 1 ELSE 2) |-> [p \in 1..2 |-> 7 * p]]],
     photoelectrons |-> [x \in (IF type = "data" THEN {t - 1 : t \in tels} ELSE {}) |->
            [p \in 1..2 |-> i + x]],
     trigger_information |-> [triggered_telescopes |-> tels,
                              gps_time |-> <<1000 + i, i>>],
     mc_shower |-> [energy |-> i],
     mc_event |-> [xcore |-> 10 * i]]

\* Telescope 1 has both corrected angles, telescope 2 a NaN corrected
\* altitude, telescope 3 no corrected angles.
FixedCases ==
    [t \in {1, 2, 3} |->
        CASE t = 1 -> [azimuth |-> "value", altitude |-> "value"]
          [] t = 2 -> [azimuth |-> "value", altitude |-> "nan"]
          [] t = 3 -> [azimuth |-> "absent", altitude |-> "absent"]]

\* The streams of up to MaxRecords array events that vary type and telescopes.
Streams ==
    UNION { { [i \in 1..n |-> ArrayEvent(i, shape[i].type, shape[i].tels, FixedCases)] :
                shape \in [1..n -> [type : EventTypes, tels : TelSets]] }
            : n \in 0..MaxRecords }

\* The streams of data events of telescope 1, or 1 and 2, that vary how the
\* corrected angles are carried, the same way for the telescopes of an event.
PointingStreams ==
    UNION { { [i \in 1..n |->
                ArrayEvent(i, "data", shape[i].tels,
                           [t \in {1, 2, 3} |-> [azimuth |-> shape[i].azimuth,
                                                 altitude |-> shape[i].altitude]])] :
                shape \in [1..n -> [tels : {{1}, {1, 2}}, azimuth : CorrectedCases,
                                    altitude : CorrectedCases]] }
            : n \in 1..MaxRecords }

\* The file of the three telescopes with these array events.
EventDisk(compression, records, ending) ==
    [compression |-> compression,
     header |-> [run |-> 7, tel_id |-> <<1, 2, 3>>,
                 tel_pos |-> <<<<10, 0, 0>>, <<20, 0, 0>>, <<30, 0, 0>>>>],
     telescope_descriptions |->
        [i \in 1..3 |-> TelescopeDescription(i,
            [n_pixels |-> 1855, focal_length |-> 2800,
             has_effective_focal_length |-> FALSE, effective_focal_length |-> 0,
             pixel_shape |-> 0])],
     mc_run_headers |-> <<[shower_prog_vers |-> 6990]>>,
     records |-> records,
     ending |-> ending]

\* The state after a successful SimTelEventSource(...) over disk.
Opened(disk, allowed, seekable) ==
    /\ SourceInit(disk, allowed, seekable, "nominal").raised = None
    /\ calib = NoCalib
    /\ phase = "open"
    /\ err = None
    /\ allowed_tels = allowed
    /\ back_seekable = seekable
    /\ focal_length_choice = "nominal"
    /\ file_ = SourceInit(disk, allowed, seekable, "nominal").file_
    /\ camera_cache = SourceInit(disk, allowed, seekable, "nominal").camera_cache
    /\ cameras = SourceInit(disk, allowed, seekable, "nominal").cameras
    /\ subarray_info = SourceInit(disk, allowed, seekable, "nominal").subarray_info
    /\ last_build = [call |-> "init", table |-> disk.telescope_descriptions,
                     header |-> disk.header, raised |-> None,
                     subarray |-> SourceInit(disk, allowed, seekable,
                                             "nominal").subarray_info]
    /\ start_pos = SourceInit(disk, allowed, seekable, "nominal").start_pos
    /\ gen = NoGenerator
    /\ data = NewContainer
    /\ yielded = <<>>
    /\ warned = {}
    /\ monitoring = NoMonitoring

Init ==
    \E compression \in {"plain", "zstd"}, seekable \in BOOLEAN,
       allowed \in AllowLists, records \in Streams,
       ending \in {"clean", "truncated"} :
        Opened(EventDisk(compression, records, ending), allowed, seekable)

InitPointing ==
    \E records \in PointingStreams :
        Opened(EventDisk("plain", records, "clean"), {}, FALSE)

Next == StartGenerator \/ Pull \/ Close \/ Exit

Spec == Init /\ [][Next]_vars

SpecPointing == InitPointing /\ [][Next]_vars

(***************************************************************************)
(* Claims about the event generator.                                       *)
(***************************************************************************)
\* The telescopes with data of the array event at place i of the stream.
RecordTels(i) == DOMAIN file_.records[i].telescope_events

\* Whether the array event at place i passes the telescope filter.
PassesFilter(i) == allowed_tels = {} \/ RecordTels(i) \cap allowed_tels # {}

\* The places up to n that pass the filter, ascending.
PassingUpTo(n) == SelectSeq([i \in 1..n |-> i], PassesFilter)

\* The places of the yielded events, in the order they were yielded.
YieldedIndices == [k \in DOMAIN yielded |-> yielded[k].index]

\* The number of array events read from the stream so far.
Consumed == file_.pos - (Len(file_.telescope_descriptions) + 1)

\* C1: in every yielded event the tels_with_data of r0, r1 and dl0 are equal,
\* and with a non-empty allow-list they are the intersection of the array
\* event's telescopes with the allow-list.
C1_TelsWithDataFiltered ==
    \A k \in DOMAIN yielded :
        /\ yielded[k].event.r0.tels_with_data = yielded[k].event.r1.tels_with_data
        /\ yielded[k].event.r1.tels_with_data = yielded[k].event.dl0.tels_with_data
        /\ allowed_tels # {} =>
              /\ yielded[k].event.r0.tels_with_data
                    = RecordTels(yielded[k].index) \cap allowed_tels
              /\ yielded[k].event.r0.tels_with_data \subseteq allowed_tels

C1_Witness ==
    /\ allowed_tels = {1, 2}
    /\ \E k \in DOMAIN yielded :
          /\ RecordTels(yielded[k].index) = {1, 2, 3}
          /\ yielded[k].event.dl0.tels_with_data = {1, 2}

\* C2: an array event whose telescopes miss the allow-list yields nothing and
\* raises nothing, and the pull goes on with the next one: the yielded events
\* are those of the array events read that pass the filter, in stream order,
\* and a pull stops reading at the event it yields.
C2_FilteredEventsSkipped ==
    /\ gen.state \in {"running", "done"} => YieldedIndices = PassingUpTo(Consumed)
    /\ gen.state = "running" => Consumed = yielded[Len(yielded)].index
    /\ gen.state = "raised" => ~Seekable(file_.handle)

\* One pull read past an array event of telescope 3 alone and yielded the next.
C2_Witness ==
    /\ allowed_tels = {1, 2}
    /\ gen.state = "running"
    /\ Len(file_.records) = 2
    /\ RecordTels(1) = {3}
    /\ YieldedIndices = <<2>>

\* C3: on a stream that ends with an EOFError after its complete array events
\* the generator yields the events of all of them (those that pass the filter)
\* and then ends with a warning; the EOFError does not reach the consumer.
C3_TruncatedStreamEndsGracefully ==
    file_.ending = "truncated" =>
        /\ gen.state = "done" =>
              /\ Consumed = Len(file_.records)
              /\ YieldedIndices = PassingUpTo(Len(file_.records))
              /\ EofWarning \in warned
        /\ gen.state = "raised" => ~Seekable(file_.handle)

C3_Witness ==
    /\ file_.ending = "truncated"
    /\ allowed_tels = {}
    /\ gen.state = "done"
    /\ Len(file_.records) = 2
    /\ Len(yielded) = 2
    /\ EofWarning \in warned

\* C6: the stream's close is performed at most once, however often close()
\* and __exit__ are called.
C6_StreamClosedOnce == file_.close_calls <= 1

\* The pointing the rule of C10 gives for a raw angle and the corrected angle
\* carried under key.
ExpectedAngle(tracking_position, key, raw) ==
    IF key \in DOMAIN tracking_position.corrected
       /\ ~tracking_position.corrected[key].nan
    THEN tracking_position.corrected[key]
    ELSE raw

\* C10: for every telescope of a yielded event the azimuth is the corrected
\* azimuth unless that is absent or NaN, then the raw one, and the altitude
\* likewise, whatever the azimuth is.
C10_PointingFallbackPerAxis ==
    \A k \in DOMAIN yielded : \A t \in RecordTels(yielded[k].index) :
        /\ t \in DOMAIN yielded[k].event.pointing
        /\ yielded[k].event.pointing[t].azimuth =
              ExpectedAngle(file_.records[yielded[k].index].tracking_positions[t],
                            "azimuth_cor",
                            file_.records[yielded[k].index].tracking_positions[t].azimuth_raw)
        /\ yielded[k].event.pointing[t].altitude =
              ExpectedAngle(file_.records[yielded[k].index].tracking_positions[t],
                            "altitude_cor",
                            file_.records[yielded[k].index].tracking_positions[t].altitude_raw)

\* Corrected altitude NaN with raw altitude 1.0 rad gives 1.0 rad while the
\* azimuth is the corrected one; the next event gives its corrected altitude.
C10_Witness ==
    /\ Len(yielded) = 2
    /\ file_.records[1].tracking_positions[1].corrected
          = [k \in {"azimuth_cor", "altitude_cor"} |->
                IF k = "azimuth_cor" THEN Float(151) ELSE NanFloat]
    /\ yielded[1].event.pointing[1] = [azimuth |-> Float(151), altitude |-> Float(1000)]
    /\ DOMAIN file_.records[2].tracking_positions[1].corrected = {"altitude_cor"}
    /\ yielded[2].event.pointing[1] = [azimuth |-> Float(201), altitude |-> Float(1210)]

\* The place of the first array event a pull reads: after the ones consumed,
\* or the first of the stream when the generator starts with a backward seek.
FirstUnread ==
    IF gen.state = "created" /\ BackseekNeeded(file_) THEN 1 ELSE Consumed + 1

\* A pull that yields reads on to the array event it yields; the ones before
\* it in this pull miss the allow-list, and without an allow-list there are none.
PullReadsToYield ==
    Len(yielded') = Len(yielded) + 1 =>
        /\ yielded'[Len(yielded')].index >= FirstUnread
        /\ Consumed' = yielded'[Len(yielded')].index
        /\ \A i \in FirstUnread..(yielded'[Len(yielded')].index - 1) : ~PassesFilter(i)
        /\ PassesFilter(yielded'[Len(yielded')].index)
        /\ allowed_tels = {} => yielded'[Len(yielded')].index = FirstUnread

\* C12 (amended): a pull that yields advances the cursor by one array event
\* when there is no allow-list, and with an allow-list by the array events it
\* skips for missing the allow-list plus the one it yields.
C12_PullAdvancesToYield == [][PullReadsToYield]_vars

\* One pull read two array events: the first misses the allow-list.
C12_Witness ==
    /\ allowed_tels = {1, 2}
    /\ Len(file_.records) = 2
    /\ RecordTels(1) = {3}
    /\ RecordTels(2) = {1, 3}
    /\ Len(yielded) = 1
    /\ Consumed = 2
    /\ data.count = 1
    /\ gen.state = "running"

\* C12 as claimed: every pull that yields, the first pull after a backward
\* seek aside, advances the cursor by exactly one array event, whatever the
\* allow-list.
C12_PullAdvancesOneRecord ==
    [][(Len(yielded') = Len(yielded) + 1 /\ FirstUnread = Consumed + 1)
          => file_'.pos = file_.pos + 1]_vars

\* The file as it was when start_pos was recorded, and what the first pull of
\* a generator gives on it.
FileAtStart == [file_ EXCEPT !.pos = start_pos, !.next_header_pos = start_pos]

FirstPullAtStart == GeneratorLoop(FileAtStart, NewContainer, 0)

\* The first pull of a generator: a step from "created" that runs its body.
FirstPull == gen.state = "created" /\ gen'.state # "created"

\* The first pull found the cursor beyond start_pos, warned, and went on as a
\* first pull from start_pos does: same cursor, same Event, same counter.
RestartsFromStart ==
    /\ BackseekWarning \in warned'
    /\ gen'.state # "raised"
    /\ file_'.pos = FirstPullAtStart.file.pos
    /\ data' = FirstPullAtStart.data
    /\ gen'.counter = FirstPullAtStart.counter
    /\ Len(yielded') = (IF FirstPullAtStart.outcome = "yield" THEN 1 ELSE 0)

\* The first pull found the cursor at start_pos: it reads on from there and
\* does not warn.
StartsWithoutSeek ==
    /\ BackseekWarning \notin warned'
    /\ gen'.state # "raised"
    /\ file_'.pos >= file_.pos
    /\ file_'.next_header_pos >= file_.next_header_pos

\* C13: when the generator starts with the cursor beyond start_pos the cursor
\* is moved back with a warning and the Events are delivered again from the
\* first array event on; otherwise there is no seek and no warning.
C13_RestartSeeksBackToStart ==
    [][FirstPull => IF file_.pos > start_pos THEN RestartsFromStart
                    ELSE StartsWithoutSeek]_vars

\* C19: on a file handle that cannot seek backwards no backward seek is
\* asked for or announced: the next header position never falls behind the
\* cursor, no backseek warning is emitted, and no failed seek ends a generator.
C19_NoBackseekOnStream ==
    ~Seekable(file_.handle) =>
        /\ file_.next_header_pos >= file_.pos
        /\ BackseekWarning \notin warned
        /\ gen.state # "raised"

\* C14: a yielded Event of a calibration array event has event id -1 in the
\* index and in r0, r1 and dl0; one of any other type has the array event's
\* own event id in all four.
C14_CalibrationEventId ==
    \A k \in DOMAIN yielded :
        /\ yielded[k].event.index.event_id =
              (IF file_.records[yielded[k].index].type = "calibration" THEN -1
               ELSE file_.records[yielded[k].index].event_id)
        /\ yielded[k].event.r0.event_id = yielded[k].event.index.event_id
        /\ yielded[k].event.r1.event_id = yielded[k].event.index.event_id
        /\ yielded[k].event.dl0.event_id = yielded[k].event.index.event_id

\* A calibration event, then a data event with its own id.
C14_Witness ==
    /\ Len(yielded) = 2
    /\ file_.records[1].type = "calibration"
    /\ file_.records[2].type = "data"
    /\ yielded[1].event.index.event_id = -1
    /\ yielded[1].event.dl0.event_id = -1
    /\ yielded[2].event.index.event_id = 102
    /\ yielded[2].event.r1.event_id = 102

\* C15: shower-level and run-level simulation truth are carried only by the
\* yielded Events of type data.
C15_ShowerTruthOnlyInData ==
    \A k \in DOMAIN yielded :
        yielded[k].event.event_type # "data" =>
            /\ ~yielded[k].event.mc.shower.filled
            /\ ~yielded[k].event.mcheader.filled

\* What the reference received at the k-th pull shows now: the content of
\* the generator's container if it is that object, else the content it had.
Shows(k) ==
    IF yielded[k].container = yielded[Len(yielded)].container THEN data
    ELSE yielded[k].event

\* C20: all pulls of a run yield one container object, so after a later pull
\* a reference from an earlier pull shows the counter, event id,
\* tels_with_data and telescope data of the later array event.
C20_EventStorageReused ==
    gen.state = "running" =>
        \A k \in DOMAIN yielded :
            /\ yielded[k].container = yielded[Len(yielded)].container
            /\ Shows(k) = yielded[Len(yielded)].event
            /\ Shows(k).count = yielded[Len(yielded)].index - 1
            /\ Shows(k).index.event_id
                  = (IF file_.records[yielded[Len(yielded)].index].type = "calibration"
                     THEN -1
                     ELSE file_.records[yielded[Len(yielded)].index].event_id)
            /\ Shows(k).r0.tels_with_data
                  = (IF allowed_tels = {} THEN RecordTels(yielded[Len(yielded)].index)
                     ELSE RecordTels(yielded[Len(yielded)].index) \cap allowed_tels)
            /\ Shows(k).r0.tels_with_data \subseteq DOMAIN Shows(k).r0.tel
            /\ DOMAIN Shows(k).r0.tel \subseteq RecordTels(yielded[Len(yielded)].index)
            /\ DOMAIN Shows(k).r1.tel = DOMAIN Shows(k).r0.tel

\* The Event of the first pull was of telescope 1; after the second pull the
\* same object shows the second array event, of telescope 3.
C20_Witness ==
    /\ gen.state = "running"
    /\ Len(yielded) = 2
    /\ yielded[1].container = yielded[2].container
    /\ yielded[1].event.count = 0
    /\ yielded[1].event.r0.tels_with_data = {1}
    /\ Shows(1).count = 1
    /\ Shows(1).index.event_id = 102
    /\ Shows(1).r0.tels_with_data = {3}
    /\ DOMAIN Shows(1).r0.tel = {3}

\* C21: in every yielded Event the telescopes with an entry in r0.tel, in
\* r1.tel and in mc.tel are exactly the telescopes of the array event's
\* telescope_events: no entry of an earlier array event remains.
C21_TelescopeMapsOfCurrentRecord ==
    \A k \in DOMAIN yielded :
        /\ DOMAIN yielded[k].event.r0.tel = RecordTels(yielded[k].index)
        /\ DOMAIN yielded[k].event.r1.tel = RecordTels(yielded[k].index)
        /\ DOMAIN yielded[k].event.mc.tel = RecordTels(yielded[k].index)

\* Telescopes 1, 2 and 3 in the first Event, telescope 3 alone in the second.
C21_Witness ==
    /\ allowed_tels = {}
    /\ Len(yielded) = 2
    /\ DOMAIN yielded[1].event.r0.tel = {1, 2, 3}
    /\ RecordTels(2) = {3}
    /\ DOMAIN yielded[2].event.r0.tel = {3}
    /\ DOMAIN yielded[2].event.r1.tel = {3}
    /\ DOMAIN yielded[2].event.mc.tel = {3}

\* C22: in every yielded Event the pointing map has entries only for the
\* telescopes of the array event's telescope_events.
C22_PointingOfCurrentRecord ==
    \A k \in DOMAIN yielded :
        DOMAIN yielded[k].event.pointing \subseteq RecordTels(yielded[k].index)

\* C23: the count of a yielded Event is the zero-based place of its array
\* event in the stream, so it increases strictly within a run and skipped
\* array events leave gaps.
C23_CounterIsStreamPosition ==
    \A k \in DOMAIN yielded :
        /\ yielded[k].event.count = yielded[k].index - 1
        /\ \A j \in 1..(k - 1) : yielded[j].event.count < yielded[k].event.count
        /\ yielded[k].event.count >= k - 1

\* The first array event was skipped: the first Event yielded has count 1.
C23_Witness ==
    /\ allowed_tels = {1, 2}
    /\ Len(yielded) = 1
    /\ RecordTels(1) = {3}
    /\ yielded[1].index = 2
    /\ yielded[1].event.count = 1

\* C25: when the generator has ended, the Event received last still has the
\* count, type, event id and tels_with_data it was yielded with, and with an
\* allow-list its tels_with_data are within the allow-list.
C25_SkippedRecordLeavesEvent ==
    (gen.state = "done" /\ Len(yielded) > 0) =>
        /\ Shows(Len(yielded)).count = yielded[Len(yielded)].event.count
        /\ Shows(Len(yielded)).event_type = yielded[Len(yielded)].event.event_type
        /\ Shows(Len(yielded)).index = yielded[Len(yielded)].event.index
        /\ Shows(Len(yielded)).r0.tels_with_data
              = yielded[Len(yielded)].event.r0.tels_with_data
        /\ allowed_tels # {} =>
              Shows(Len(yielded)).dl0.tels_with_data \subseteq allowed_tels

(***************************************************************************)
(* Claims about the construction.                                          *)
(***************************************************************************)
\* Two telescopes of a SubarrayDescription that resolved to one camera name
\* reference one camera object, and it is the cached one.
CamerasShared(subarray, cache) ==
    \A t, u \in DOMAIN subarray.tel_descriptions :
        /\ subarray.tel_descriptions[t].resolved_camera_name \in DOMAIN cache
        /\ subarray.tel_descriptions[t].camera =
              cache[subarray.tel_descriptions[t].resolved_camera_name]
        /\ subarray.tel_descriptions[t].resolved_camera_name =
              subarray.tel_descriptions[u].resolved_camera_name
           => subarray.tel_descriptions[t].camera = subarray.tel_descriptions[u].camera

\* A step keeps every camera cache entry and its object, and leaves the
\* SubarrayDescriptions sharing the cached objects.
CacheEntriesKept ==
    /\ \A n \in DOMAIN camera_cache :
          /\ n \in DOMAIN camera_cache'
          /\ camera_cache'[n] = camera_cache[n]
          /\ cameras'[camera_cache[n]] = cameras[camera_cache[n]]
    /\ CamerasShared(last_build'.subarray, camera_cache')
    /\ CamerasShared(subarray_info', camera_cache')

\* C4: telescopes that resolve to the same camera name reference the same
\* camera object, and a step never replaces or changes a camera cache entry:
\* each later telescope and each later build call reuses it.
C4_CameraCacheSharing == [][CacheEntriesKept]_vars

\* A later build call gave two telescopes the camera object that the
\* construction had cached for a telescope of the file.
C4_Witness ==
    /\ phase = "open"
    /\ last_build.call = "direct"
    /\ last_build.subarray.built
    /\ DOMAIN last_build.subarray.tel_descriptions = {1, 2}
    /\ last_build.subarray.tel_descriptions[1].camera =
          last_build.subarray.tel_descriptions[2].camera
    /\ \E t \in DOMAIN subarray_info.tel_descriptions :
          subarray_info.tel_descriptions[t].camera =
              last_build.subarray.tel_descriptions[1].camera
    /\ Len(cameras) = 1

\* C5: requiring back-seekability on a stream that cannot seek backwards
\* fails the construction with an IOError before the subarray is built, so no
\* generator exists; without the requirement the construction does not fail
\* this way, and with the nominal focal length it succeeds.
C5_SeekRequirementFailsFast ==
    phase # "new" =>
        /\ (back_seekable /\ ~Seekable(file_.handle)) =>
              /\ phase = "failed"
              /\ err = "IOError"
              /\ ~subarray_info.built
              /\ camera_cache = <<>>
              /\ cameras = <<>>
              /\ gen.state = "none"
              /\ yielded = <<>>
        /\ ~back_seekable =>
              /\ err # "IOError"
              /\ (focal_length_choice = "nominal" /\ err # "IndexError")
                    => phase = "open"

C5_Witness ==
    /\ phase = "failed"
    /\ err = "IOError"
    /\ back_seekable
    /\ file_.handle = "ZstdStream"
    /\ Len(file_.telescope_descriptions) > 0

\* The telescopes of the latest call's table that carry no effective focal
\* length, and those whose id the header lacks.
LacksEffective(table) ==
    {i \in DOMAIN table : ~table[i].camera_settings.has_effective_focal_length}

LacksPosition(table, header) ==
    {i \in DOMAIN table : \A j \in DOMAIN header.tel_id :
                             header.tel_id[j] # table[i].tel_id}

\* C11: with focal_length_choice effective, a table with a telescope that has
\* no effective focal length fails the build with an error and gives no
\* SubarrayDescription (the construction fails with it); with nominal the
\* build never fails for the missing field.
C11_EffectiveFocalLengthRequired ==
    last_build.call # "" =>
        /\ ( /\ focal_length_choice = "effective"
             /\ LacksEffective(last_build.table) # {} )
           => /\ last_build.raised # None
              /\ ~last_build.subarray.built
              /\ last_build.call = "init" =>
                    (phase = "failed" /\ ~subarray_info.built /\ start_pos = -1)
              /\ LacksPosition(last_build.table, last_build.header) = {}
                    => last_build.raised = "RuntimeError"
        /\ focal_length_choice = "nominal" =>
              /\ last_build.raised # "RuntimeError"
              /\ LacksPosition(last_build.table, last_build.header) = {}
                    => (last_build.raised = None /\ last_build.subarray.built)

\* The second telescope of the file lacks the field, the first has it.
C11_Witness ==
    /\ phase = "failed"
    /\ err = "RuntimeError"
    /\ focal_length_choice = "effective"
    /\ Len(last_build.table) = 2
    /\ LacksEffective(last_build.table) = {2}
    /\ ~last_build.subarray.built
    /\ Len(cameras) = 1

\* The focal length the latest call looked telescope i of its table up with,
\* and whether the lookup table has an entry for the telescope.
LookupFocalLength(i) ==
    IF focal_length_choice = "effective"
    THEN last_build.table[i].camera_settings.effective_focal_length
    ELSE last_build.table[i].camera_settings.focal_length

InLookup(i) ==
    \E e \in TelescopeTable :
        /\ e.n_pixels = last_build.table[i].camera_settings.n_pixels
        /\ e.focal_length = LookupFocalLength(i)

\* C16: a telescope whose (pixel count, focal length) the lookup does not
\* know does not fail the build: the result holds every telescope of the
\* table, the unknown ones with the UNKNOWN_TELESCOPE model.
C16_UnknownTelescopeSentinel ==
    last_build.call # "" =>
        /\ last_build.raised \in {None, "RuntimeError", "IndexError"}
        /\ last_build.raised = "RuntimeError" =>
              (focal_length_choice = "effective"
                  /\ LacksEffective(last_build.table) # {})
        /\ last_build.raised = "IndexError" =>
              LacksPosition(last_build.table, last_build.header) # {}
        /\ last_build.raised = None =>
              /\ last_build.subarray.built
              /\ \A i \in DOMAIN last_build.table :
                    /\ last_build.table[i].tel_id
                          \in DOMAIN last_build.subarray.tel_descriptions
                    /\ (last_build.subarray.tel_descriptions[
                            last_build.table[i].tel_id].name = "UNKNOWN")
                          <=> ~InLookup(i)
                    /\ ~InLookup(i) =>
                          /\ last_build.subarray.tel_descriptions[
                                last_build.table[i].tel_id].tel_type = "UNKNOWN"
                          /\ last_build.subarray.tel_descriptions[
                                last_build.table[i].tel_id].optics.num_mirrors = -1
                          /\ last_build.subarray.tel_descriptions[
                                last_build.table[i].tel_id].resolved_camera_name
                                    = "UNKNOWN"

\* An unknown telescope first, then an LST: both are in the result.
C16_Witness ==
    /\ phase = "open"
    /\ last_build.call = "init"
    /\ Len(last_build.table) = 2
    /\ ~InLookup(1)
    /\ InLookup(2)
    /\ DOMAIN subarray_info.tel_descriptions = {1, 2}
    /\ subarray_info.tel_descriptions[1].name = "UNKNOWN"
    /\ subarray_info.tel_descriptions[2].name = "LST"

\* The telescopes of the file whose camera was built from their own
\* description: the first of the table for each camera name.
BuiltCamera(i) ==
    \A j \in 1..(i - 1) :
        subarray_info.tel_descriptions[file_.telescope_descriptions[j].tel_id]
            .resolved_camera_name
        # subarray_info.tel_descriptions[file_.telescope_descriptions[i].tel_id]
            .resolved_camera_name

\* The geometry of the camera of telescope i of the file.
GeometryOf(i) ==
    cameras[subarray_info.tel_descriptions[
                file_.telescope_descriptions[i].tel_id].camera].geometry

ShapeCode(i) == file_.telescope_descriptions[i].camera_settings.pixel_shape

Recognised(pixel_shape) == simtel_shape_to_type(pixel_shape).known

\* C17: a camera built from a pixel-shape code that is not recognised is a
\* hexagon camera with pixel rotation 0, and the construction warns and does
\* not fail; one built from a recognised code has the mapped type and
\* rotation, and without an unrecognised code there is no warning.
C17_UnknownPixelShapeFallback ==
    (phase = "open" /\ last_build.call = "init") =>
        /\ \A i \in DOMAIN file_.telescope_descriptions :
              BuiltCamera(i) =>
                 IF Recognised(ShapeCode(i))
                 THEN /\ GeometryOf(i).pix_type
                            = simtel_shape_to_type(ShapeCode(i)).pix_type
                      /\ GeometryOf(i).pix_rotation
                            = simtel_shape_to_type(ShapeCode(i)).pix_rotation
                 ELSE /\ GeometryOf(i).pix_type = "hexagon"
                      /\ GeometryOf(i).pix_rotation = 0
        /\ ("UnknownPixelShapeWarning" \in warned)
              <=> \E i \in DOMAIN file_.telescope_descriptions :
                     BuiltCamera(i) /\ ~Recognised(ShapeCode(i))
        /\ (focal_length_choice = "nominal" /\ ~back_seekable) => err = None

\* A camera built from the unrecognised code 99 and shared by a telescope
\* with a recognised code.
C17_Witness ==
    /\ phase = "open"
    /\ last_build.call = "init"
    /\ Len(file_.telescope_descriptions) = 2
    /\ ShapeCode(1) = 99
    /\ ShapeCode(2) = 0
    /\ ~BuiltCamera(2)
    /\ GeometryOf(2).pix_type = "hexagon"
    /\ GeometryOf(2).pix_rotation = 0
    /\ warned = {"UnknownPixelShapeWarning"}

\* The telescope ids of the latest call's table.
TableIds == {last_build.table[i].tel_id : i \in DOMAIN last_build.table}

\* Whether j is the first entry of the latest call's header with tel_id.
FirstHeaderEntry(j, tel_id) ==
    /\ last_build.header.tel_id[j] = tel_id
    /\ \A k \in 1..(j - 1) : last_build.header.tel_id[k] # tel_id

\* C18: when the header has every telescope id of the description table, the
\* description map and the position map of the SubarrayDescription have
\* exactly the table's telescope ids as keys, and the position of a telescope
\* is that of the first header entry with its id.
C18_SubarrayCoversTable ==
    ( /\ last_build.call # ""
      /\ last_build.raised # "RuntimeError"
      /\ LacksPosition(last_build.table, last_build.header) = {} )
    => /\ last_build.raised = None
       /\ last_build.subarray.built
       /\ DOMAIN last_build.subarray.tel_descriptions = TableIds
       /\ DOMAIN last_build.subarray.tel_positions = TableIds
       /\ Cardinality(TableIds) = Len(last_build.table)
       /\ \A t \in TableIds : \E j \in DOMAIN last_build.header.tel_id :
             /\ FirstHeaderEntry(j, t)
             /\ last_build.subarray.tel_positions[t] = last_build.header.tel_pos[j]

\* A header that lists telescope 1 twice, after telescope 2: the position of
\* telescope 1 is the one of its first entry.
C18_Witness ==
    /\ last_build.call = "direct"
    /\ last_build.raised = None
    /\ last_build.header.tel_id = <<2, 1, 1>>
    /\ DOMAIN last_build.subarray.tel_positions = {1, 2}
    /\ last_build.subarray.tel_positions[1] = <<10, 2, 0>>
    /\ last_build.subarray.tel_positions[2] = <<20, 1, 0>>

\* C24: the camera geometry of every telescope of a built SubarrayDescription
\* has the pixel count of that telescope's own raw description.
C24_GeometryHasOwnPixelCount ==
    (last_build.call # "" /\ last_build.raised = None) =>
        \A i \in DOMAIN last_build.table :
            cameras[last_build.subarray.tel_descriptions[
                        last_build.table[i].tel_id].camera].geometry.n_pixels
                = last_build.table[i].camera_settings.n_pixels

\* C27: a construction that fails after the SimTelFile was opened has closed
\* it by the time the error reaches the caller.
C27_FailedConstructionClosesStream ==
    phase = "failed" => file_.close_calls >= 1

(***************************************************************************)
(* SpecFits: the construction of a FITSMonitoringSource over a list of     *)
(* one to MaxFiles input files, or over the empty list.                    *)
(***************************************************************************)
InitFits ==
    /\ calib = NoCalib
    /\ NewSource

NextFits == MonitoringInit \/ ProcessSingleFile

SpecFits == InitFits /\ [][NextFits]_vars

\* Whether an HDU passes both checks for the source its header names.
PassesChecks(hdu) ==
    /\ hdu.bintable
    /\ "MSOURCE" \in DOMAIN hdu.header
    /\ hdu.header["MSOURCE"] \in {"LST1Drive", "STPN-01"}
    /\ hdu.header["MSOURCE"] = "LST1Drive"
          => {"time", "altitude", "azimuth"} \subseteq hdu.columns
    /\ hdu.header["MSOURCE"] = "STPN-01"
          => {"timestamp", "ra", "dec", "aod", "aod_err"} \subseteq hdu.columns

\* Whether i is the first HDU of file that passes both checks.
FirstPassing(file, i) ==
    /\ PassesChecks(file[i])
    /\ \A j \in 1..(i - 1) : ~PassesChecks(file[j])

\* Every stored table is keyed by the registered source its header names
\* and has the columns required for it; a failed construction is the one
\* over the empty list, and it has read no file.
StoredTablesValid ==
    /\ \A n \in DOMAIN monitoring.monitoring_sources :
          /\ n \in {"LST1Drive", "STPN-01"}
          /\ monitoring.monitoring_sources[n].meta["MSOURCE"] = n
          /\ MONITORING_SOURCES[n].data_struct
                \subseteq monitoring.monitoring_sources[n].columns
    /\ monitoring.phase = "failed" =>
          /\ monitoring.err = "InputMissing"
          /\ monitoring.n_files = 0
          /\ monitoring.provenance = 0
          /\ monitoring.monitoring_sources = <<>>
    /\ monitoring.phase = "built" =>
          (monitoring.n_files > 0 /\ monitoring.provenance = monitoring.n_files)

\* The step that processed a file stored the table of the file's first HDU
\* that passes both checks under its source name, and nothing else; a file
\* without such an HDU left the stored tables as they were.
FileStoresFirstPassing ==
    monitoring'.provenance # monitoring.provenance =>
        /\ monitoring'.provenance = monitoring.provenance + 1
        /\ (\A i \in DOMAIN monitoring'.file : ~PassesChecks(monitoring'.file[i]))
              => monitoring'.monitoring_sources = monitoring.monitoring_sources
        /\ \A i \in DOMAIN monitoring'.file :
              FirstPassing(monitoring'.file, i) =>
                 /\ DOMAIN monitoring'.monitoring_sources
                       = DOMAIN monitoring.monitoring_sources
                            \cup {monitoring'.file[i].header["MSOURCE"]}
                 /\ monitoring'.monitoring_sources[monitoring'.file[i].header["MSOURCE"]]
                       .rows = i
                 /\ monitoring'.monitoring_sources[monitoring'.file[i].header["MSOURCE"]]
                       .columns = monitoring'.file[i].columns
                 /\ \A n \in DOMAIN monitoring.monitoring_sources :
                       n # monitoring'.file[i].header["MSOURCE"] =>
                          monitoring'.monitoring_sources[n]
                             = monitoring.monitoring_sources[n]

\* C28: every stored monitoring table is keyed by a registered source name
\* and has all columns required for that source; each file contributes at
\* most one table, that of its first binary-table HDU that passes both
\* checks, and the other HDUs are never stored; the empty file list fails
\* the construction with InputMissing before a file is read.
C28_MonitoringTablesValidated == []StoredTablesValid /\ [][FileStoresFirstPassing]_vars

\* The last file has an LST1Drive table with the wrong columns and then a
\* complete STPN-01 table: the second HDU is stored, next to the LST1Drive
\* table of an earlier file.
C28_Witness ==
    /\ monitoring.phase = "built"
    /\ monitoring.n_files = 2
    /\ Len(monitoring.file) = 2
    /\ monitoring.file[1].bintable
    /\ monitoring.file[1].header = [k \in {"MSOURCE"} |-> "LST1Drive"]
    /\ ~PassesChecks(monitoring.file[1])
    /\ DOMAIN monitoring.monitoring_sources = {"LST1Drive", "STPN-01"}
    /\ monitoring.monitoring_sources["STPN-01"].rows = 2
    /\ "missing columns" \in monitoring.warnings

==========================================================================
